---- MODULE Spec2Model ----
(***************************************************************************)
(* Verification model of the Obsidian Lofi plugin (LofiPlugin): the focus  *)
(* timer (startTimer / pauseTimer / resetTimer / tick / endSession) and    *)
(* the audio playback controller (scanAudioFolder / playTrackByPath /      *)
(* playNextTrack / playPreviousTrack / togglePlayback), together with the  *)
(* stream registry lookup and the audio-source dropdown, the folder        *)
(* browser, the volume slider and the duration fields of the settings tab. *)
(* Handlers run to completion on one thread, so every handler is one       *)
(* atomic action; the browser's interval table and the audio element's     *)
(* pending play() promises are the only things that act between handlers.  *)
(***************************************************************************)
EXTENDS Integers, Sequences, FiniteSets, Bags, TLC

VARIABLES
    phase,               \* plugin lifecycle: "constructed" | "loaded" | "unloaded"
    settings,            \* this.settings
    timerState,          \* this.timerState
    remainingTime,       \* this.remainingTime (seconds)
    timerIntervalId,     \* this.timerIntervalId (NullId for null)
    currentSessionType,  \* this.currentSessionType
    activeIntervals,     \* the window's table of live setInterval handles
    nextIntervalId,      \* the handle the next window.setInterval returns
    timerDisplayEl,      \* this.timerDisplayEl is non-null
    timerDisplayText,    \* text of the timer status bar item
    timerPlayPauseButtonEl,    \* this.timerPlayPauseButtonEl is non-null
    timerPlayPauseButtonText,  \* text of the timer play/pause button
    timerPlayPauseButtonLabel, \* its ariaLabel
    timerResetButtonEl,        \* this.timerResetButtonEl is non-null
    timerResetButtonDisplay,   \* its style.display: "" or "none"
    audioPlayer,         \* this.audioPlayer is non-null
    audioSrc,            \* this.audioPlayer.src as read back
    audioPaused,         \* this.audioPlayer.paused
    audioVolume,         \* this.audioPlayer.volume, in hundredths
    pendingPlays,        \* bag of the play() promises not yet settled
    playlist,            \* this.playlist
    currentTrackIndex,   \* this.currentTrackIndex
    statusBarItemEl,     \* this.statusBarItemEl is non-null
    statusBarText,       \* text of the audio status bar item
    playPauseButtonEl,   \* this.playPauseButtonEl is non-null
    playPauseButtonText, \* text of the play/pause status bar button
    playPauseButtonLabel,\* its ariaLabel
    playbackControlsDisplay, \* style.display of the previous, play/pause and
                         \* next buttons: "" or "none"
    localFolderShown,    \* settings tab: local folder containers displayed
    notices,             \* Notices raised by the handler that ran last
    settingsSaved,       \* the handler that ran last called saveSettings()
    lastOp               \* the handler that ran last

timerVars == <<timerState, remainingTime, timerIntervalId, currentSessionType,
               activeIntervals, nextIntervalId>>
timerUiVars == <<timerDisplayEl, timerDisplayText, timerPlayPauseButtonEl,
                 timerPlayPauseButtonText, timerPlayPauseButtonLabel,
                 timerResetButtonEl, timerResetButtonDisplay>>
audioVars == <<audioPlayer, audioSrc, audioPaused, audioVolume, pendingPlays,
               playlist, currentTrackIndex, statusBarItemEl, statusBarText,
               playPauseButtonEl, playPauseButtonText, playPauseButtonLabel,
               playbackControlsDisplay>>
vars == <<phase, settings, timerVars, timerUiVars, audioVars, localFolderShown,
          notices, settingsSaved, lastOp>>

-----------------------------------------------------------------------------
(* Bounds of the model                                                     *)

MaxMinutes == 2        \* configured durations range over 1..MaxMinutes
MaxIntervalIds == 4    \* setInterval is called at most this many times
MaxPending == 2        \* play() promises in flight at once
LongSession == 101     \* minutes of the session that exercises the clock format

(* Program constants                                                       *)

NullId == 0            \* timerIntervalId: number | null; handles are >= 1
SecondsPerMinute == 60
DefaultWorkDuration == 25
DefaultRestDuration == 5
NoTrack == -1
DefaultVolume == 50
FullVolume == 100      \* volume of a fresh Audio(): 1.0

Running == {"working", "resting"}

-----------------------------------------------------------------------------
(* Numbers of the settings and the text of the timer display              *)

\* A JavaScript number as data.json can hold it: an integer or NaN.
Number(n) == [isNaN |-> FALSE, value |-> n]
NaN == [isNaN |-> TRUE, value |-> 0]

\* x > n: false whenever x is NaN
GreaterThan(x, n) == ~x.isNaN /\ x.value > n

\* isNaN(x)
isNaN(x) == x.isNaN

DecimalDigit == <<"0", "1", "2", "3", "4", "5", "6", "7", "8", "9">>

\* String(n) for a non-negative integer: its decimal digits
RECURSIVE String(_)
String(n) ==
    IF n < 10
    THEN <<DecimalDigit[n + 1]>>
    ELSE Append(String(n \div 10), DecimalDigit[(n % 10) + 1])

\* Mutant of padStart: the zeros are added on the right.
RECURSIVE padEnd(_, _)
padEnd(str, targetLength) ==
    IF Len(str) >= targetLength THEN str ELSE padEnd(str \o <<"0">>, targetLength)

\* str.padStart(targetLength, '0')
RECURSIVE padStart(_, _)
padStart(str, targetLength) ==
    IF Len(str) >= targetLength THEN str ELSE padStart(<<"0">> \o str, targetLength)

\* type.charAt(0).toUpperCase() + type.slice(1)
IsDigit(c) == \E i \in DOMAIN DecimalDigit : DecimalDigit[i] = c
DigitValue(c) == (CHOOSE i \in DOMAIN DecimalDigit : DecimalDigit[i] = c) - 1

\* Leading white space is skipped by parseInt.
RECURSIVE TrimStart(_)
TrimStart(str) ==
    IF str # <<>> /\ Head(str) = " " THEN TrimStart(Tail(str)) ELSE str

\* The value of the longest prefix of decimal digits, read left to right.
RECURSIVE ParseDigits(_, _)
ParseDigits(str, acc) ==
    IF str = <<>> \/ ~IsDigit(Head(str))
    THEN acc
    ELSE ParseDigits(Tail(str), acc * 10 + DigitValue(Head(str)))

\* parseInt(value, 10): white space, an optional sign, then digits; whatever
\* follows the digits is ignored, and NaN results when there is no digit.
parseInt(value) ==
    LET trimmed == TrimStart(value)
        signed == trimmed # <<>> /\ Head(trimmed) \in {"-", "+"}
        body == IF signed THEN Tail(trimmed) ELSE trimmed
    IN  IF body = <<>> \/ ~IsDigit(Head(body))
        THEN NaN
        ELSE IF signed /\ Head(trimmed) = "-"
        THEN Number(0 - ParseDigits(body, 0))
        ELSE Number(ParseDigits(body, 0))

Capitalize(type) == IF type = "work" THEN "Work" ELSE "Rest"

-----------------------------------------------------------------------------
(* Focus timer                                                             *)

\* The timer fields of the plugin, with the interval table they act on and
\* the notices raised so far by the running handler.
TimerRec ==
    [timerState |-> timerState, remainingTime |-> remainingTime,
     timerIntervalId |-> timerIntervalId,
     currentSessionType |-> currentSessionType,
     activeIntervals |-> activeIntervals, nextIntervalId |-> nextIntervalId,
     timerDisplayEl |-> timerDisplayEl, timerDisplayText |-> timerDisplayText,
     timerPlayPauseButtonEl |-> timerPlayPauseButtonEl,
     timerPlayPauseButtonText |-> timerPlayPauseButtonText,
     timerPlayPauseButtonLabel |-> timerPlayPauseButtonLabel,
     timerResetButtonEl |-> timerResetButtonEl,
     timerResetButtonDisplay |-> timerResetButtonDisplay,
     notices |-> <<>>]

\* if (this.timerIntervalId !== null) { clearInterval(this.timerIntervalId); }
clearIntervalIfSet(t) ==
    IF t.timerIntervalId # NullId
    THEN [t EXCEPT !.activeIntervals = @ \ {t.timerIntervalId}]
    ELSE t

\* ... followed by this.timerIntervalId = null
clearAndForget(t) ==
    IF t.timerIntervalId # NullId
    THEN [t EXCEPT !.activeIntervals = @ \ {t.timerIntervalId},
                   !.timerIntervalId = NullId]
    ELSE t

\* this.timerIntervalId = window.setInterval(() => this.tick(), 1000)
setIntervalTick(t) ==
    [t EXCEPT !.timerIntervalId = t.nextIntervalId,
              !.activeIntervals = @ \cup {t.nextIntervalId},
              !.nextIntervalId = @ + 1]

\* Mutant of updateTimerDisplay: the minutes and seconds are not padded.
updateTimerDisplayUnpadded(t) ==
    LET minutes == t.remainingTime \div SecondsPerMinute
        seconds == t.remainingTime % SecondsPerMinute
        formattedTime == String(minutes) \o <<":">> \o String(seconds)
        displayStatus ==
            CASE t.timerState = "stopped" -> <<"Timer: Stopped">>
              [] t.timerState = "working" -> <<"Work: ">> \o formattedTime
              [] t.timerState = "resting" -> <<"Rest: ">> \o formattedTime
              [] t.timerState = "paused" ->
                    <<Capitalize(t.currentSessionType), ": Paused (">>
                        \o formattedTime \o <<")">>
    IN  IF t.timerDisplayEl THEN [t EXCEPT !.timerDisplayText = displayStatus] ELSE t

updateTimerDisplay(t) ==
    LET minutes == t.remainingTime \div SecondsPerMinute
        seconds == t.remainingTime % SecondsPerMinute
        formattedTime == padStart(String(minutes), 2) \o <<":">>
                            \o padStart(String(seconds), 2)
        displayStatus ==
            CASE t.timerState = "stopped" -> <<"Timer: Stopped">>
              [] t.timerState = "working" -> <<"Work: ">> \o formattedTime
              [] t.timerState = "resting" -> <<"Rest: ">> \o formattedTime
              [] t.timerState = "paused" ->
                    <<Capitalize(t.currentSessionType), ": Paused (">>
                        \o formattedTime \o <<")">>
    IN  IF t.timerDisplayEl THEN [t EXCEPT !.timerDisplayText = displayStatus] ELSE t

TimerStartIcon == ">"    \* BLACK RIGHT-POINTING TRIANGLE
TimerPauseIcon == "||"   \* two HEAVY VERTICAL BARs

\* isFullyReset, as both methods below compute it
isFullyReset(t) == t.timerState = "stopped" /\ t.remainingTime = 0

\* updateTimerControls(): the play/pause button follows timerState and is
\* shown (its style.display, like that of the timer display, is never set to
\* anything but ''); the reset button is hidden when the timer is fully reset.
updateTimerControls(t) ==
    LET t1 == IF t.timerPlayPauseButtonEl
              THEN IF t.timerState \in {"stopped", "paused"}
                   THEN [t EXCEPT !.timerPlayPauseButtonText = TimerStartIcon,
                                  !.timerPlayPauseButtonLabel = "Start Timer"]
                   ELSE [t EXCEPT !.timerPlayPauseButtonText = TimerPauseIcon,
                                  !.timerPlayPauseButtonLabel = "Pause Timer"]
              ELSE t
    IN  IF t1.timerResetButtonEl
        THEN [t1 EXCEPT !.timerResetButtonDisplay =
                           IF isFullyReset(t1) THEN "none" ELSE ""]
        ELSE t1

\* setTimerControlsVisibility(visible): the part that can change a display.
setTimerControlsVisibility(t, visible) ==
    IF t.timerResetButtonEl /\ (~isFullyReset(t) \/ visible)
    THEN [t EXCEPT !.timerResetButtonDisplay = IF visible THEN "" ELSE "none"]
    ELSE t

\* Mutant of startTimer: a resume restarts the countdown at the full duration.
startTimerRestart(t, s) ==
    IF t.timerState \in Running
    THEN t
    ELSE LET workDur == IF GreaterThan(s.workDuration, 0) THEN s.workDuration.value
                        ELSE DefaultWorkDuration
             t1 == [t EXCEPT !.currentSessionType = "work",
                             !.remainingTime = workDur * SecondsPerMinute,
                             !.notices = Append(@, <<"Starting work session", workDur>>)]
             t2 == [t1 EXCEPT !.timerState = "working"]
         IN  setTimerControlsVisibility(
                 updateTimerControls(
                     updateTimerDisplay(setIntervalTick(clearIntervalIfSet(t2)))),
                 TRUE)

\* Mutant of startTimer: a start while running replaces the interval.
startTimerReschedules(t, s) ==
    IF t.timerState \in Running
    THEN setIntervalTick(clearIntervalIfSet(t))
    ELSE LET workDur == IF GreaterThan(s.workDuration, 0) THEN s.workDuration.value
                        ELSE DefaultWorkDuration
             t1 == IF t.timerState = "stopped"
                   THEN [t EXCEPT !.currentSessionType = "work",
                                  !.remainingTime = workDur * SecondsPerMinute,
                                  !.notices = Append(@, <<"Starting work session", workDur>>)]
                   ELSE [t EXCEPT !.notices =
                            Append(@, <<"Resuming session", t.currentSessionType, "!">>)]
             t2 == [t1 EXCEPT !.timerState =
                        IF t1.currentSessionType = "work" THEN "working" ELSE "resting"]
         IN  setTimerControlsVisibility(
                 updateTimerControls(
                     updateTimerDisplay(setIntervalTick(clearIntervalIfSet(t2)))),
                 TRUE)

startTimer(t, s) ==
    IF t.timerState \in Running
    THEN t
    ELSE LET workDur == IF GreaterThan(s.workDuration, 0) THEN s.workDuration.value
                        ELSE DefaultWorkDuration
             t1 == IF t.timerState = "stopped"
                   THEN [t EXCEPT !.currentSessionType = "work",
                                  !.remainingTime = workDur * SecondsPerMinute,
                                  !.notices = Append(@, <<"Starting work session", workDur>>)]
                   ELSE [t EXCEPT !.notices =
                            Append(@, <<"Resuming session", t.currentSessionType, "!">>)]
             t2 == [t1 EXCEPT !.timerState =
                        IF t1.currentSessionType = "work" THEN "working" ELSE "resting"]
         IN  setTimerControlsVisibility(
                 updateTimerControls(
                     updateTimerDisplay(setIntervalTick(clearIntervalIfSet(t2)))),
                 TRUE)

\* Mutant of pauseTimer: the handle is forgotten without being cancelled.
pauseTimerLeak(t) ==
    IF t.timerState \notin Running
    THEN t
    ELSE updateTimerControls(updateTimerDisplay([t EXCEPT !.timerIntervalId = NullId,
                                      !.timerState = "paused",
                                      !.notices = Append(@, <<"Timer paused.">>)]))

\* Mutant of pauseTimer: the state becomes paused with the interval left alone.
pauseTimerKeepsInterval(t) ==
    IF t.timerState \notin Running
    THEN t
    ELSE updateTimerControls(updateTimerDisplay([t EXCEPT !.timerState = "paused",
                                      !.notices = Append(@, <<"Timer paused.">>)]))

\* Mutant of pauseTimer: the guard on the running states is missing.
pauseTimerAlways(t) ==
    updateTimerControls(updateTimerDisplay([clearAndForget(t) EXCEPT
                           !.timerState = "paused",
                           !.notices = Append(@, <<"Timer paused.">>)]))

pauseTimer(t) ==
    IF t.timerState \notin Running
    THEN t
    ELSE updateTimerControls(updateTimerDisplay([clearAndForget(t) EXCEPT
                                !.timerState = "paused",
                                !.notices = Append(@, <<"Timer paused.">>)]))

\* Mutant of resetTimer: the countdown of a paused session is kept.
resetTimerKeepsTime(t) ==
    IF t.timerState = "stopped" /\ t.remainingTime = 0
    THEN t
    ELSE updateTimerControls(updateTimerDisplay([clearAndForget(t) EXCEPT
                                !.timerState = "stopped",
                                !.remainingTime = IF t.timerState = "paused" THEN @ ELSE 0,
                                !.currentSessionType = "work",
                                !.notices = Append(@, <<"Timer reset.">>)]))

\* Mutant of resetTimer: the interval of the session is left running.
resetTimerKeepsInterval(t) ==
    IF t.timerState = "stopped" /\ t.remainingTime = 0
    THEN t
    ELSE updateTimerControls(updateTimerDisplay([t EXCEPT !.timerState = "stopped",
                                      !.remainingTime = 0,
                                      !.currentSessionType = "work",
                                      !.notices = Append(@, <<"Timer reset.">>)]))

resetTimer(t) ==
    IF t.timerState = "stopped" /\ t.remainingTime = 0
    THEN t
    ELSE updateTimerControls(updateTimerDisplay([clearAndForget(t) EXCEPT
                                !.timerState = "stopped",
                                !.remainingTime = 0,
                                !.currentSessionType = "work",
                                !.notices = Append(@, <<"Timer reset.">>)]))

\* `${Type} session ended!`
SessionEndedNotice(type) ==
    IF type = "work" THEN <<"Work session ended!">> ELSE <<"Rest session ended!">>

\* Mutant of endSession: the next session is not started.
endSessionNoRestart(t, s) ==
    LET t1 == clearAndForget(t)
        t2 == [t1 EXCEPT !.notices = Append(@, SessionEndedNotice(t.currentSessionType))]
    IN  updateTimerControls(updateTimerDisplay(
            [t2 EXCEPT !.currentSessionType =
                          IF t.currentSessionType = "work" THEN "rest" ELSE "work",
                       !.timerState = "stopped"]))

endSession(t, s) ==
    LET t1 == clearAndForget(t)
        t2 == [t1 EXCEPT !.notices = Append(@, SessionEndedNotice(t.currentSessionType))]
        t3 == [t2 EXCEPT !.currentSessionType =
                            IF t.currentSessionType = "work" THEN "rest" ELSE "work",
                         !.timerState = "stopped"]
    IN  updateTimerControls(updateTimerDisplay(startTimer(t3, s)))

\* Mutant of tick: the countdown stops at zero without ending the session.
tickNoEnd(t, s) ==
    IF t.timerState \in Running
    THEN LET t1 == [t EXCEPT !.remainingTime = @ - 1]
         IN  updateTimerDisplay(IF t1.remainingTime <= 0
                                THEN [t1 EXCEPT !.remainingTime = 0]
                                ELSE t1)
    ELSE t

tick(t, s) ==
    IF t.timerState \in Running
    THEN LET t1 == [t EXCEPT !.remainingTime = @ - 1]
         IN  updateTimerDisplay(IF t1.remainingTime <= 0
                                THEN endSession([t1 EXCEPT !.remainingTime = 0], s)
                                ELSE t1)
    ELSE t

\* Write a timer record back to the plugin's fields.
SetTimer(t) ==
    /\ timerState' = t.timerState
    /\ remainingTime' = t.remainingTime
    /\ timerIntervalId' = t.timerIntervalId
    /\ currentSessionType' = t.currentSessionType
    /\ activeIntervals' = t.activeIntervals
    /\ nextIntervalId' = t.nextIntervalId
    /\ timerDisplayEl' = t.timerDisplayEl
    /\ timerDisplayText' = t.timerDisplayText
    /\ timerPlayPauseButtonEl' = t.timerPlayPauseButtonEl
    /\ timerPlayPauseButtonText' = t.timerPlayPauseButtonText
    /\ timerPlayPauseButtonLabel' = t.timerPlayPauseButtonLabel
    /\ timerResetButtonEl' = t.timerResetButtonEl
    /\ timerResetButtonDisplay' = t.timerResetButtonDisplay
    /\ notices' = t.notices

\* Command 'Start Focus Timer' / timer play button while stopped or paused.
StartTimer ==
    /\ phase = "loaded"
    /\ nextIntervalId <= MaxIntervalIds
    /\ SetTimer(startTimer(TimerRec, settings))
    /\ lastOp' = "startTimer"
    /\ settingsSaved' = FALSE
    /\ UNCHANGED <<phase, settings, audioVars, localFolderShown>>

\* Command 'Pause Focus Timer' / timer play button while running.
PauseTimer ==
    /\ phase = "loaded"
    /\ SetTimer(pauseTimer(TimerRec))
    /\ lastOp' = "pauseTimer"
    /\ settingsSaved' = FALSE
    /\ UNCHANGED <<phase, settings, audioVars, localFolderShown>>

\* Command 'Reset Focus Timer' / timer reset button.
ResetTimer ==
    /\ phase = "loaded"
    /\ SetTimer(resetTimer(TimerRec))
    /\ lastOp' = "resetTimer"
    /\ settingsSaved' = FALSE
    /\ UNCHANGED <<phase, settings, audioVars, localFolderShown>>

\* The window fires the callback of a live interval: () => { this.tick(); }
Tick ==
    /\ \E h \in activeIntervals : TRUE
    /\ tick(TimerRec, settings).nextIntervalId <= MaxIntervalIds + 1
    /\ SetTimer(tick(TimerRec, settings))
    /\ lastOp' = "tick"
    /\ settingsSaved' = FALSE
    /\ UNCHANGED <<phase, settings, audioVars, localFolderShown>>

-----------------------------------------------------------------------------
(* The vault (host file system) and the stream registry                    *)

\* A vault path is the sequence of its '/'-separated segments.
MusicChildren ==
    << [kind |-> "file",   path |-> <<"music", "a.mp3">>,     extension |-> "mp3"],
       [kind |-> "folder", path |-> <<"music", "sub">>,       extension |-> ""],
       [kind |-> "file",   path |-> <<"music", "B.MP3">>,     extension |-> "MP3"],
       [kind |-> "file",   path |-> <<"music", "cover.png">>, extension |-> "png"],
       [kind |-> "file",   path |-> <<"music", "c.mp3">>,     extension |-> "mp3"] >>

SoloChildren ==
    << [kind |-> "file", path |-> <<"solo", "only.mp3">>, extension |-> "mp3"] >>

NotesChildren ==
    << [kind |-> "file", path |-> <<"notes", "todo.md">>, extension |-> "md"] >>

\* The vault root holds the folders, a note and one track of its own.
RootChildren ==
    << [kind |-> "folder", path |-> <<"music">>,     extension |-> ""],
       [kind |-> "folder", path |-> <<"solo">>,      extension |-> ""],
       [kind |-> "folder", path |-> <<"notes">>,     extension |-> ""],
       [kind |-> "file",   path |-> <<"readme.md">>, extension |-> "md"],
       [kind |-> "file",   path |-> <<"intro.mp3">>, extension |-> "mp3"] >>

\* this.app.vault.getRoot()
getRoot == [kind |-> "folder", children |-> RootChildren]

\* this.app.vault.getAbstractFileByPath(path): a TFolder, a TFile or null
getAbstractFileByPath(path) ==
    IF path = <<"music">> THEN [kind |-> "folder", children |-> MusicChildren]
    ELSE IF path = <<"solo">> THEN [kind |-> "folder", children |-> SoloChildren]
    ELSE IF path = <<"notes">> THEN [kind |-> "folder", children |-> NotesChildren]
    ELSE IF path = <<"readme.md">> THEN [kind |-> "file", children |-> <<>>]
    ELSE [kind |-> "null", children |-> <<>>]

\* normalizePath: empty segments (doubled or trailing slashes) are dropped;
\* the empty path and '/' both come out as the empty sequence.
normalizePath(raw) == SelectSeq(raw, LAMBDA seg : seg # "")

\* String.prototype.toLowerCase on a file extension
toLowerCase(ext) == IF ext \in {"MP3", "Mp3", "mP3"} THEN "mp3" ELSE ext

\* this.app.vault.adapter.getResourcePath(vaultPath)
getResourcePath(vaultPath) == <<"app://local">> \o vaultPath

\* trackVaultPath.split('/').pop() || 'Unknown Track'
TrackName(vaultPath) ==
    IF Len(vaultPath) = 0 \/ vaultPath[Len(vaultPath)] = ""
    THEN "Unknown Track"
    ELSE vaultPath[Len(vaultPath)]

\* Folder paths handed to scanAudioFolder by onload and the folder browser.
FolderInputs ==
    { <<>>, <<"music">>, <<"solo">>, <<"notes">>, <<"readme.md">>, <<"missing">> }

\* settings.audioFolderPath as stored in data.json when the plugin loads.
StoredFolders == { <<>>, <<"music", "">>, <<"missing">> }

\* Track paths a track-list item of the settings tab may still hold.
TrackInputs ==
    { <<"music", "a.mp3">>, <<"music", "B.MP3">>, <<"solo", "only.mp3">> }

\* Where a host call made by the scan may throw.
ThrowPoints == {"none", "getAbstractFileByPath", "getResourcePath"}

NullStreamId == "<null>"
NonexistentId == "nonexistent-id"

PREDEFINED_LOFI_STREAMS ==
    << [id |-> "local", name |-> "Local Folder", url |-> <<>>],
       [id |-> "chill-mornings", name |-> "Chill Mornings",
        url |-> <<"https://antares.dribbcast.com/proxy/s8280/stream">>],
       [id |-> "jazzy-afternoons", name |-> "Jazzy Afternoons",
        url |-> <<"https://relay0.r-a-d.io/main.mp3">>],
       [id |-> "japanese-music", name |-> "Anime & Japanese Music",
        url |-> <<"http://tsuiokuyo.ddns.net:8764/lossy">>],
       [id |-> "lofi-hiphop-radio", name |-> "Lofi Hip Hop Radio",
        url |-> <<"https://streams.fluxfm.de/Chillhop/mp3-128/streams.fluxfm.de/">>] >>

\* The value Array.prototype.find yields when no element matches.
Undefined == [id |-> "<undefined>", name |-> "", url |-> <<>>]

RegistryIds == { PREDEFINED_LOFI_STREAMS[i].id : i \in DOMAIN PREDEFINED_LOFI_STREAMS }

\* PREDEFINED_LOFI_STREAMS.find((stream) => stream.id === id)
FindStream(id) ==
    IF \E i \in DOMAIN PREDEFINED_LOFI_STREAMS : PREDEFINED_LOFI_STREAMS[i].id = id
    THEN LET i == CHOOSE i \in DOMAIN PREDEFINED_LOFI_STREAMS :
                    /\ PREDEFINED_LOFI_STREAMS[i].id = id
                    /\ \A j \in 1..(i - 1) : PREDEFINED_LOFI_STREAMS[j].id # id
         IN  PREDEFINED_LOFI_STREAMS[i]
    ELSE Undefined

getStreamById(id) ==
    IF id = NullStreamId \/ id = "local"
    THEN FindStream("local")
    ELSE FindStream(id)

\* Values the audio-source dropdown handler is run with.
StreamInputs == {"local", "chill-mornings", NonexistentId}

\* settings.volume as stored: the slider keeps it in 0..100.
StoredVolumes == {DefaultVolume, 150}

\* Values the volume slider hands to its onChange.
VolumeInputs == {0, 30}

\* Durations data.json can hold when the plugin loads: the settings tab
\* stores positive integers only; a hand-edited file can hold anything.
ValidDurations == { Number(n) : n \in 1..MaxMinutes }
InvalidDurations == { Number(0), NaN }
StoredWorkDurations ==
    ValidDurations \cup InvalidDurations
        \cup {Number(DefaultWorkDuration), Number(LongSession)}
StoredRestDurations ==
    ValidDurations \cup InvalidDurations \cup {Number(DefaultRestDuration)}

\* Texts typed into the duration fields of the settings tab.
DurationTexts ==
    { String(n) : n \in 0..MaxMinutes }
        \cup { <<>>, <<"-", "1">>, <<"a">>, <<"2", ".", "5">>, <<" ", "1">>, <<"1", "x">> }

\* Mutant of workDurationOnChange: zero passes the validation.
workDurationOnChangeAcceptsZero(s, value) ==
    LET duration == parseInt(value)
    IN  IF ~isNaN(duration) /\ duration.value >= 0
        THEN [settings |-> [s EXCEPT !.workDuration = duration],
              saved |-> TRUE, notices |-> <<>>]
        ELSE [settings |-> s, saved |-> FALSE,
              notices |-> << <<"Please enter a valid positive number for work duration.">> >>]

\* onChange of the work-duration text field
workDurationOnChange(s, value) ==
    LET duration == parseInt(value)
    IN  IF ~isNaN(duration) /\ GreaterThan(duration, 0)
        THEN [settings |-> [s EXCEPT !.workDuration = duration],
              saved |-> TRUE, notices |-> <<>>]
        ELSE [settings |-> s, saved |-> FALSE,
              notices |-> << <<"Please enter a valid positive number for work duration.">> >>]

\* onChange of the rest-duration text field
restDurationOnChange(s, value) ==
    LET duration == parseInt(value)
    IN  IF ~isNaN(duration) /\ GreaterThan(duration, 0)
        THEN [settings |-> [s EXCEPT !.restDuration = duration],
              saved |-> TRUE, notices |-> <<>>]
        ELSE [settings |-> s, saved |-> FALSE,
              notices |-> << <<"Enter a valid positive number for rest duration.">> >>]

-----------------------------------------------------------------------------
(* The audio element (HTMLAudioElement), as the plugin drives it           *)

NoSrc == <<>>                          \* src of a fresh Audio(): ''
LocationHref == <<"location.href">>    \* src read back after src = ''

\* The audio fields of the plugin, with the notices raised so far by the
\* running handler.
AudioRec ==
    [audioPlayer |-> audioPlayer, audioSrc |-> audioSrc,
     audioPaused |-> audioPaused, audioVolume |-> audioVolume,
     pendingPlays |-> pendingPlays,
     playlist |-> playlist, currentTrackIndex |-> currentTrackIndex,
     statusBarItemEl |-> statusBarItemEl, statusBarText |-> statusBarText,
     playPauseButtonEl |-> playPauseButtonEl,
     playPauseButtonText |-> playPauseButtonText,
     playPauseButtonLabel |-> playPauseButtonLabel,
     playbackControlsDisplay |-> playbackControlsDisplay,
     notices |-> <<>>]

PauseIcon == "||"      \* DOUBLE VERTICAL BAR, shown for isPlaying
PlayIcon == ">"        \* BLACK RIGHT-POINTING TRIANGLE

\* updatePlayPauseButton(isPlaying)
updatePlayPauseButton(a, isPlaying) ==
    IF a.playPauseButtonEl
    THEN [a EXCEPT !.playPauseButtonText = IF isPlaying THEN PauseIcon ELSE PlayIcon,
                   !.playPauseButtonLabel = IF isPlaying THEN "Pause" ELSE "Play"]
    ELSE a

\* The listeners onload attaches to the element's 'play' and 'pause' events.
\* The element delivers its events in the order it queued them and no
\* handler reads the button, so the button is given here the state it has
\* once the event has been delivered.
onPlay(a) == updatePlayPauseButton(a, TRUE)
onPause(a) == updatePlayPauseButton(a, FALSE)

\* Mutant of AbortPending: a load leaves the earlier promises as they are.
AbortPendingNever(pending) == pending

\* Pending play() promises are rejected (AbortError) by pause() and by a load.
AbortPending(pending) ==
    LET aborted == { [p EXCEPT !.fate = "reject"] : p \in BagToSet(pending) }
    IN  [q \in aborted |->
            CopiesIn(q, pending) + CopiesIn([q EXCEPT !.fate = "any"], pending)]

\* this.audioPlayer.src = url: the element reloads; a playing element is
\* paused by the load, and '' reads back as the document's address.
setSrc(a, url) ==
    [a EXCEPT !.audioSrc = IF url = <<>> THEN LocationHref ELSE url,
              !.audioPaused = TRUE,
              !.pendingPlays = AbortPending(@)]

\* this.audioPlayer.pause(): an element that was playing fires 'pause'.
pause(a) ==
    LET a1 == [a EXCEPT !.audioPaused = TRUE, !.pendingPlays = AbortPending(@)]
    IN  IF a.audioPaused THEN a1 ELSE onPause(a1)

\* this.audioPlayer.play(): when the element is allowed to play it leaves the
\* paused state at once and the promise settles later either way; when it is
\* not (autoplay policy) the promise can only reject.  origin and track are
\* what the .then/.catch closures of the caller capture.
\* An element that leaves the paused state fires 'play'.
play(a, allowed, origin, track) ==
    LET a1 == [a EXCEPT !.audioPaused = IF allowed THEN FALSE ELSE @,
                        !.pendingPlays = @ (+) SetToBag({[origin |-> origin,
                                                          track |-> track,
                                                          fate |-> IF allowed THEN "any"
                                                                   ELSE "reject"]})]
    IN  IF allowed /\ a.audioPaused THEN onPlay(a1) ELSE a1

\* Math.max(0, Math.min(100, volume))
Clamp(volume) == IF volume < 0 THEN 0 ELSE IF volume > 100 THEN 100 ELSE volume

\* setVolume(volume): this.audioPlayer.volume = clampedVolume / 100
setVolume(a, volume) ==
    IF a.audioPlayer THEN [a EXCEPT !.audioVolume = Clamp(volume)] ELSE a

notice(a, n) == [a EXCEPT !.notices = Append(@, n)]

updateStatusBar(a, text) ==
    IF a.statusBarItemEl THEN [a EXCEPT !.statusBarText = text] ELSE a

\* Mutant of clearSrcAndIndex: the index is left as it was.
clearSrcOnly(a) == IF a.audioPlayer THEN setSrc(a, <<>>) ELSE a

\* if (this.audioPlayer) { this.audioPlayer.src = ''; } this.currentTrackIndex = -1;
clearSrcAndIndex(a) ==
    [(IF a.audioPlayer THEN setSrc(a, <<>>) ELSE a) EXCEPT !.currentTrackIndex = NoTrack]

\* Array.prototype.indexOf, zero-based, -1 when absent
indexOf(list, x) ==
    IF \E i \in DOMAIN list : list[i] = x
    THEN (CHOOSE i \in DOMAIN list :
            list[i] = x /\ \A j \in 1..(i - 1) : list[j] # x) - 1
    ELSE -1

\* playlist[index] for a zero-based index
At(list, index) == list[index + 1]

-----------------------------------------------------------------------------
(* Audio playback controller                                               *)

\* Mutant of Mp3Children: the extension is compared as it is spelled.
Mp3ChildrenCaseSensitive(children) ==
    LET keep == SelectSeq(children,
                    LAMBDA f : f.kind = "file" /\ f.extension = "mp3")
    IN  [i \in DOMAIN keep |-> keep[i].path]

\* The loop of the scan: the vault paths of the direct children that are
\* files with extension mp3, in the folder's order.
Mp3Children(children) ==
    LET keep == SelectSeq(children,
                    LAMBDA f : f.kind = "file" /\ toLowerCase(f.extension) = "mp3")
    IN  [i \in DOMAIN keep |-> keep[i].path]

\* setPlaybackControlsVisibility(visible).  prevButtonEl and nextButtonEl are
\* created and dropped together with playPauseButtonEl, and the three
\* buttons are given the same style.display.
setPlaybackControlsVisibility(a, visible) ==
    IF a.playPauseButtonEl
    THEN [a EXCEPT !.playbackControlsDisplay = IF visible THEN "" ELSE "none"]
    ELSE a

\* The catch block of scanAudioFolder.
scanCatch(a) ==
    setPlaybackControlsVisibility(
        clearSrcAndIndex(updateStatusBar(notice(a, <<"Error scanning folder">>),
                                         <<"Lofi: Scan Error">>)),
        FALSE)

\* Mutant of scanAudioFolder: the first track is started once it is loaded.
scanAudioFolderAutoplays(a, folderPath, throwAt) ==
    LET a0 == [a EXCEPT !.playlist = <<>>]
        normalizedFolderPath == normalizePath(folderPath)
        folder == getAbstractFileByPath(normalizedFolderPath)
        found == Mp3Children(folder.children)
        a1 == updateStatusBar([a0 EXCEPT !.playlist = found],
                              <<"Lofi: files found", Len(found)>>)
        a2 == [a1 EXCEPT !.currentTrackIndex = 0]
    IN  IF normalizedFolderPath = <<>>
        THEN setPlaybackControlsVisibility(
                 clearSrcAndIndex(updateStatusBar(a0, <<"Lofi: No folder set">>)),
                 FALSE)
        ELSE IF throwAt = "getAbstractFileByPath"
        THEN scanCatch(a0)
        ELSE IF folder.kind = "folder"
        THEN IF Len(found) > 0
             THEN IF a2.audioPlayer /\ a2.audioPaused
                  THEN IF throwAt = "getResourcePath"
                       THEN scanCatch(a2)
                       ELSE setPlaybackControlsVisibility(
                                play(updateStatusBar(
                                         setSrc(a2, getResourcePath(At(found, 0))),
                                         <<"Lofi Ready || ", TrackName(At(found, 0))>>),
                                     TRUE, "playTrackByPath", At(found, 0)),
                                TRUE)
                  ELSE setPlaybackControlsVisibility(a2, TRUE)
             ELSE setPlaybackControlsVisibility(
                      updateStatusBar(clearSrcAndIndex(a1), <<"Lofi: No files found">>),
                      FALSE)
        ELSE setPlaybackControlsVisibility(
                 clearSrcAndIndex(
                     updateStatusBar(notice(a0, <<"Error: not a valid folder">>),
                                     <<"Lofi: Invalid folder">>)),
                 FALSE)

scanAudioFolder(a, folderPath, throwAt) ==
    LET a0 == [a EXCEPT !.playlist = <<>>]
        normalizedFolderPath == normalizePath(folderPath)
        folder == getAbstractFileByPath(normalizedFolderPath)
        found == Mp3Children(folder.children)
        a1 == updateStatusBar([a0 EXCEPT !.playlist = found],
                              <<"Lofi: files found", Len(found)>>)
        a2 == [a1 EXCEPT !.currentTrackIndex = 0]
    IN  IF normalizedFolderPath = <<>>
        THEN setPlaybackControlsVisibility(
                 clearSrcAndIndex(updateStatusBar(a0, <<"Lofi: No folder set">>)),
                 FALSE)
        ELSE IF throwAt = "getAbstractFileByPath"
        THEN scanCatch(a0)
        ELSE IF folder.kind = "folder"
        THEN IF Len(found) > 0
             THEN IF a2.audioPlayer /\ a2.audioPaused
                  THEN IF throwAt = "getResourcePath"
                       THEN scanCatch(a2)
                       ELSE setPlaybackControlsVisibility(
                                updateStatusBar(
                                    setSrc(a2, getResourcePath(At(found, 0))),
                                    <<"Lofi Ready || ", TrackName(At(found, 0))>>),
                                TRUE)
                  ELSE setPlaybackControlsVisibility(a2, TRUE)
             ELSE setPlaybackControlsVisibility(
                      updateStatusBar(clearSrcAndIndex(a1), <<"Lofi: No files found">>),
                      FALSE)
        ELSE setPlaybackControlsVisibility(
                 clearSrcAndIndex(
                     updateStatusBar(notice(a0, <<"Error: not a valid folder">>),
                                     <<"Lofi: Invalid folder">>)),
                 FALSE)

\* Mutant of playTrackByPath: a track that is not found unloads the player.
playTrackByPathResetsOnMiss(a, trackVaultPath, allowed) ==
    LET index == indexOf(a.playlist, trackVaultPath)
    IN  IF ~a.audioPlayer \/ Len(a.playlist) = 0
        THEN updateStatusBar(
                 notice(a, <<"Cannot play track: Audio player not ready or playlist is empty.">>),
                 <<"Lofi: Play Error">>)
        ELSE IF index = -1
        THEN clearSrcAndIndex(updateStatusBar(
                 notice(a, <<"Error: Selected track not found in playlist.">>),
                 <<"Lofi: Track Error">>))
        ELSE play(setSrc([a EXCEPT !.currentTrackIndex = index],
                         getResourcePath(trackVaultPath)),
                  allowed, "playTrackByPath", trackVaultPath)

playTrackByPath(a, trackVaultPath, allowed) ==
    LET index == indexOf(a.playlist, trackVaultPath)
    IN  IF ~a.audioPlayer \/ Len(a.playlist) = 0
        THEN updateStatusBar(
                 notice(a, <<"Cannot play track: Audio player not ready or playlist is empty.">>),
                 <<"Lofi: Play Error">>)
        ELSE IF index = -1
        THEN updateStatusBar(
                 notice(a, <<"Error: Selected track not found in playlist.">>),
                 <<"Lofi: Track Error">>)
        ELSE play(setSrc([a EXCEPT !.currentTrackIndex = index],
                         getResourcePath(trackVaultPath)),
                  allowed, "playTrackByPath", trackVaultPath)

\* Mutant of playNextTrack: only the empty playlist is refused.
playNextTrackReplaySingle(a, allowed) ==
    IF ~a.audioPlayer \/ Len(a.playlist) < 1
    THEN updateStatusBar(
             notice(a, <<"Cannot play next track: Playlist is empty.">>),
             <<"Lofi: Playlist Empty">>)
    ELSE LET inc == a.currentTrackIndex + 1
             next == IF inc >= Len(a.playlist) THEN 0 ELSE inc
             a1 == [a EXCEPT !.currentTrackIndex = next]
         IN  playTrackByPath(a1, At(a1.playlist, next), allowed)

playNextTrack(a, allowed) ==
    IF ~a.audioPlayer \/ Len(a.playlist) <= 1
    THEN IF Len(a.playlist) = 0
         THEN updateStatusBar(
                  notice(a, <<"Cannot play next track: Playlist is empty.">>),
                  <<"Lofi: Playlist Empty">>)
         ELSE updateStatusBar(
                  notice(a, <<"Cannot play next track: Only one track in playlist.">>),
                  <<"Lofi: Single Track">>)
    ELSE LET inc == a.currentTrackIndex + 1
             next == IF inc >= Len(a.playlist) THEN 0 ELSE inc
             a1 == [a EXCEPT !.currentTrackIndex = next]
         IN  playTrackByPath(a1, At(a1.playlist, next), allowed)

\* Mutant of playPreviousTrack: below zero the index wraps to the first track.
playPreviousTrackWrapFirst(a, allowed) ==
    IF ~a.audioPlayer \/ Len(a.playlist) <= 1
    THEN IF Len(a.playlist) = 0
         THEN updateStatusBar(
                  notice(a, <<"Cannot play previous track: Playlist is empty.">>),
                  <<"Lofi: Playlist Empty">>)
         ELSE updateStatusBar(
                  notice(a, <<"Cannot play previous track: Only one track in playlist.">>),
                  <<"Lofi: Single Track">>)
    ELSE LET dec == a.currentTrackIndex - 1
             prev == IF dec < 0 THEN 0 ELSE dec
             a1 == [a EXCEPT !.currentTrackIndex = prev]
         IN  playTrackByPath(a1, At(a1.playlist, prev), allowed)

playPreviousTrack(a, allowed) ==
    IF ~a.audioPlayer \/ Len(a.playlist) <= 1
    THEN IF Len(a.playlist) = 0
         THEN updateStatusBar(
                  notice(a, <<"Cannot play previous track: Playlist is empty.">>),
                  <<"Lofi: Playlist Empty">>)
         ELSE updateStatusBar(
                  notice(a, <<"Cannot play previous track: Only one track in playlist.">>),
                  <<"Lofi: Single Track">>)
    ELSE LET dec == a.currentTrackIndex - 1
             prev == IF dec < 0 THEN Len(a.playlist) - 1 ELSE dec
             a1 == [a EXCEPT !.currentTrackIndex = prev]
         IN  playTrackByPath(a1, At(a1.playlist, prev), allowed)

\* Mutant of togglePlayback: play() is issued whatever the paused flag says.
togglePlaybackAlwaysPlays(a, s, allowed) ==
    LET isTrackLoaded == a.audioSrc # NoSrc /\ a.audioSrc # LocationHref
        indexOk == a.currentTrackIndex # -1 /\ a.currentTrackIndex < Len(a.playlist)
        isPlaylistReady == Len(a.playlist) > 0 /\ indexOk
        a1 == notice(a, <<"No Lofi track loaded. Check settings and folder.">>)
        currentTrackPath == At(a.playlist, a.currentTrackIndex)
    IN  IF ~a.audioPlayer
        THEN notice(a, <<"Audio player not initialized.">>)
        ELSE IF ~isTrackLoaded \/ ~isPlaylistReady
        THEN IF s.audioFolderPath = <<>> \/ Len(a.playlist) = 0
             THEN updateStatusBar(a1, <<"Lofi: No files/folder">>)
             ELSE IF ~indexOk
             THEN updateStatusBar(a1, <<"Lofi: Index Error">>)
             ELSE updateStatusBar(a1, <<"Lofi: Source Error">>)
        ELSE play(a, allowed, "togglePlayback", currentTrackPath)

togglePlayback(a, s, allowed) ==
    LET isTrackLoaded == a.audioSrc # NoSrc /\ a.audioSrc # LocationHref
        indexOk == a.currentTrackIndex # -1 /\ a.currentTrackIndex < Len(a.playlist)
        isPlaylistReady == Len(a.playlist) > 0 /\ indexOk
        a1 == notice(a, <<"No Lofi track loaded. Check settings and folder.">>)
        currentTrackPath == At(a.playlist, a.currentTrackIndex)
        currentTrackName == TrackName(currentTrackPath)
    IN  IF ~a.audioPlayer
        THEN notice(a, <<"Audio player not initialized.">>)
        ELSE IF ~isTrackLoaded \/ ~isPlaylistReady
        THEN IF s.audioFolderPath = <<>> \/ Len(a.playlist) = 0
             THEN updateStatusBar(a1, <<"Lofi: No files/folder">>)
             ELSE IF ~indexOk
             THEN updateStatusBar(a1, <<"Lofi: Index Error">>)
             ELSE updateStatusBar(a1, <<"Lofi: Source Error">>)
        ELSE IF a.audioPaused
        THEN play(a, allowed, "togglePlayback", currentTrackPath)
        ELSE updateStatusBar(notice(pause(a), <<"Lofi paused.">>),
                             <<"Lofi Paused || ", currentTrackName>>)

\* Mutant of settlePlay: a settled promise selects its own track again.
settlePlayReselects(a, promise, outcome) ==
    LET trackName == TrackName(promise.track)
        index == indexOf(a.playlist, promise.track)
        a1 == IF index # -1
              THEN [a EXCEPT !.currentTrackIndex = index,
                             !.audioSrc = getResourcePath(promise.track)]
              ELSE a
    IN  IF outcome = "resolve"
        THEN updateStatusBar(notice(a1, <<"Playing: ", trackName>>),
                             <<"Playing: ", trackName>>)
        ELSE updateStatusBar(notice(a1, <<"Failed to play", trackName>>),
                             <<"Lofi: Playback Error">>)

\* Mutant of settlePlay: a failed play attempt unloads the track it selected.
settlePlayRollsBack(a, promise, outcome) ==
    LET trackName == TrackName(promise.track)
    IN  IF promise.origin = "playTrackByPath"
        THEN IF outcome = "resolve"
             THEN updateStatusBar(notice(a, <<"Playing: ", trackName>>),
                                  <<"Playing: ", trackName>>)
             ELSE clearSrcAndIndex(
                      updateStatusBar(notice(a, <<"Failed to play", trackName>>),
                                      <<"Lofi: Playback Error">>))
        ELSE IF outcome = "resolve"
             THEN updateStatusBar(notice(a, <<"Lofi playing...">>),
                                  <<"Playing: ", trackName>>)
             ELSE updateStatusBar(notice(a, <<"Failed to play Lofi audio. Check console.">>),
                                  <<"Lofi Play Error">>)

\* The .then / .catch closures attached to a play() promise by
\* playTrackByPath and togglePlayback.
settlePlay(a, promise, outcome) ==
    LET trackName == TrackName(promise.track)
    IN  IF promise.origin = "playTrackByPath"
        THEN IF outcome = "resolve"
             THEN updateStatusBar(notice(a, <<"Playing: ", trackName>>),
                                  <<"Playing: ", trackName>>)
             ELSE updateStatusBar(notice(a, <<"Failed to play", trackName>>),
                                  <<"Lofi: Playback Error">>)
        ELSE IF outcome = "resolve"
             THEN updateStatusBar(notice(a, <<"Lofi playing...">>),
                                  <<"Playing: ", trackName>>)
             ELSE updateStatusBar(notice(a, <<"Failed to play Lofi audio. Check console.">>),
                                  <<"Lofi Play Error">>)

\* Settlement of the autoplay attempt of a stream: reported, nothing else.
settleStreamPlay(a, promise, outcome) ==
    IF outcome = "resolve"
    THEN updateStatusBar(a, <<"Playing: ", promise.track[1]>>)
    ELSE updateStatusBar(notice(a, <<"Failed to play stream", promise.track[1]>>),
                         <<"Lofi: Stream Error">>)

\* activateStream(streamId): stop playback and clear the session, then load
\* and autoplay the stream, or rescan the configured folder for Local.
activateStream(a, s, streamId, allowed, throwAt) ==
    LET stream == getStreamById(streamId)
        a1 == [setSrc(pause(a), <<>>) EXCEPT !.currentTrackIndex = NoTrack,
                                              !.playlist = <<>>]
    IN  IF ~a.audioPlayer
        THEN a
        ELSE IF stream # Undefined /\ stream.id # "local"
        THEN play(setSrc(a1, stream.url), allowed, "activateStream", <<stream.name>>)
        ELSE scanAudioFolder(a1, s.audioFolderPath, throwAt)

\* onload(), up to the creation of the status bar items
onload(a, s, throwAt) ==
    LET a0 == [a EXCEPT !.audioPlayer = TRUE, !.audioSrc = NoSrc, !.audioPaused = TRUE,
                        !.audioVolume = FullVolume]
        a1 == setVolume(a0, s.volume)
        a2 == IF s.audioFolderPath # <<>>
              THEN scanAudioFolder(a1, normalizePath(s.audioFolderPath), throwAt)
              ELSE updateStatusBar(a1, <<"Lofi: No folder set">>)
        badIndex == a2.currentTrackIndex = -1 \/ a2.currentTrackIndex >= Len(a2.playlist)
        a3 == IF badIndex THEN [a2 EXCEPT !.currentTrackIndex = 0] ELSE a2
        initialTrackVaultPath == At(a3.playlist, a3.currentTrackIndex)
        a4 == IF Len(a2.playlist) > 0 /\ a2.audioPlayer
              THEN updateStatusBar(setSrc(a3, getResourcePath(initialTrackVaultPath)),
                                   <<"Lofi Ready || ", TrackName(initialTrackVaultPath)>>)
              ELSE IF s.audioFolderPath = <<>>
              THEN a2
              ELSE updateStatusBar(a2, <<"Lofi: No files found">>)
        a5 == updateStatusBar([a4 EXCEPT !.statusBarItemEl = TRUE], <<"Lofi Ready">>)
        a6 == updatePlayPauseButton([a5 EXCEPT !.playPauseButtonEl = TRUE,
                                               !.playbackControlsDisplay = ""],
                                    a5.audioPaused)
    IN  [a6 EXCEPT !.playPauseButtonLabel = "Toggle Playback"]

\* onload(): the timer status bar items.  updateTimerControls() is called
\* when the play/pause button exists and the reset button does not yet; the
\* reset button is then created with the default style.display.
onloadTimer(t) ==
    LET t1 == updateTimerDisplay([t EXCEPT !.timerDisplayEl = TRUE])
        t2 == updateTimerControls([t1 EXCEPT !.timerPlayPauseButtonEl = TRUE])
        t3 == [t2 EXCEPT !.timerPlayPauseButtonLabel = "Start Timer"]
    IN  [t3 EXCEPT !.timerResetButtonEl = TRUE, !.timerResetButtonDisplay = ""]

\* onunload(): the audio part.  The 'pause' event of its pause() is delivered
\* after it has returned, when playPauseButtonEl is null.
onunloadAudio(a) ==
    LET a1 == updateStatusBar([a EXCEPT !.playPauseButtonEl = FALSE],
                              <<"Lofi Unloaded">>)
        a2 == IF a1.audioPlayer
              THEN [setSrc(pause(a1), <<>>) EXCEPT !.audioPlayer = FALSE]
              ELSE a1
    IN  [a2 EXCEPT !.statusBarItemEl = FALSE, !.playlist = <<>>,
                   !.currentTrackIndex = NoTrack]

\* Mutant of onunloadTimer: the interval is forgotten without being cancelled.
onunloadTimerLeak(t) ==
    [t EXCEPT !.timerDisplayEl = FALSE,
              !.timerPlayPauseButtonEl = FALSE, !.timerResetButtonEl = FALSE,
              !.timerState = "stopped", !.remainingTime = 0,
              !.timerIntervalId = NullId,
              !.currentSessionType = "work"]

\* onunload(): the timer part
onunloadTimer(t) ==
    [clearIntervalIfSet(t) EXCEPT !.timerDisplayEl = FALSE,
                                  !.timerPlayPauseButtonEl = FALSE,
                                  !.timerResetButtonEl = FALSE,
                                  !.timerState = "stopped", !.remainingTime = 0,
                                  !.timerIntervalId = NullId,
                                  !.currentSessionType = "work"]

\* Write an audio record back to the plugin's fields.
SetAudio(a) ==
    /\ audioPlayer' = a.audioPlayer
    /\ audioSrc' = a.audioSrc
    /\ audioPaused' = a.audioPaused
    /\ audioVolume' = a.audioVolume
    /\ pendingPlays' = a.pendingPlays
    /\ playlist' = a.playlist
    /\ currentTrackIndex' = a.currentTrackIndex
    /\ statusBarItemEl' = a.statusBarItemEl
    /\ statusBarText' = a.statusBarText
    /\ playPauseButtonEl' = a.playPauseButtonEl
    /\ playPauseButtonText' = a.playPauseButtonText
    /\ playPauseButtonLabel' = a.playPauseButtonLabel
    /\ playbackControlsDisplay' = a.playbackControlsDisplay
    /\ notices' = a.notices

CanPlay == BagCardinality(pendingPlays) < MaxPending

-----------------------------------------------------------------------------
(* Handlers                                                                *)

OnLoad ==
    /\ phase = "constructed"
    /\ \E throwAt \in ThrowPoints : SetAudio(onload(AudioRec, settings, throwAt))
    /\ LET t == onloadTimer(TimerRec)
       IN  /\ timerDisplayEl' = t.timerDisplayEl
           /\ timerDisplayText' = t.timerDisplayText
           /\ timerPlayPauseButtonEl' = t.timerPlayPauseButtonEl
           /\ timerPlayPauseButtonText' = t.timerPlayPauseButtonText
           /\ timerPlayPauseButtonLabel' = t.timerPlayPauseButtonLabel
           /\ timerResetButtonEl' = t.timerResetButtonEl
           /\ timerResetButtonDisplay' = t.timerResetButtonDisplay
    /\ phase' = "loaded"
    /\ lastOp' = "onload"
    /\ settingsSaved' = FALSE
    /\ UNCHANGED <<settings, timerVars, localFolderShown>>

OnUnload ==
    /\ phase = "loaded"
    /\ SetAudio(onunloadAudio(AudioRec))
    /\ LET t == onunloadTimer(TimerRec)
       IN  /\ timerState' = t.timerState
           /\ remainingTime' = t.remainingTime
           /\ timerIntervalId' = t.timerIntervalId
           /\ currentSessionType' = t.currentSessionType
           /\ activeIntervals' = t.activeIntervals
           /\ nextIntervalId' = t.nextIntervalId
           /\ timerDisplayEl' = t.timerDisplayEl
           /\ timerDisplayText' = t.timerDisplayText
           /\ timerPlayPauseButtonEl' = t.timerPlayPauseButtonEl
           /\ timerPlayPauseButtonText' = t.timerPlayPauseButtonText
           /\ timerPlayPauseButtonLabel' = t.timerPlayPauseButtonLabel
           /\ timerResetButtonEl' = t.timerResetButtonEl
           /\ timerResetButtonDisplay' = t.timerResetButtonDisplay
    /\ phase' = "unloaded"
    /\ lastOp' = "onunload"
    /\ settingsSaved' = FALSE
    /\ UNCHANGED <<settings, localFolderShown>>

\* Settings tab, 'Select This Folder': save the path, rescan, report.
SelectCurrentFolder ==
    /\ phase = "loaded"
    /\ \E currentBrowsePath \in FolderInputs, throwAt \in ThrowPoints :
          IF currentBrowsePath = <<>>
             \/ getAbstractFileByPath(currentBrowsePath).kind = "folder"
          THEN LET path == normalizePath(currentBrowsePath)
                   a == scanAudioFolder(AudioRec, path, throwAt)
               IN  /\ settings' = [settings EXCEPT !.audioFolderPath = path]
                   /\ settingsSaved' = TRUE
                   /\ SetAudio(notice(a, <<"Audio folder set to", path>>))
          ELSE /\ SetAudio(notice(AudioRec,
                      <<"Cannot select current path: Not a valid folder.">>))
               /\ settingsSaved' = FALSE
               /\ UNCHANGED settings
    /\ lastOp' = "scanAudioFolder"
    /\ UNCHANGED <<phase, timerVars, timerUiVars, localFolderShown>>

\* Settings tab, click on a track-list item.
PlayTrackByPath ==
    /\ phase = "loaded"
    /\ CanPlay
    /\ \E trackVaultPath \in TrackInputs, allowed \in BOOLEAN :
          SetAudio(playTrackByPath(AudioRec, trackVaultPath, allowed))
    /\ lastOp' = "playTrackByPath"
    /\ settingsSaved' = FALSE
    /\ UNCHANGED <<phase, settings, timerVars, timerUiVars, localFolderShown>>

\* Command 'Play Next Lofi Track' / next button.
PlayNextTrack ==
    /\ phase = "loaded"
    /\ CanPlay
    /\ \E allowed \in BOOLEAN : SetAudio(playNextTrack(AudioRec, allowed))
    /\ lastOp' = "playNextTrack"
    /\ settingsSaved' = FALSE
    /\ UNCHANGED <<phase, settings, timerVars, timerUiVars, localFolderShown>>

\* Command 'Play Previous Lofi Track' / previous button.
PlayPreviousTrack ==
    /\ phase = "loaded"
    /\ CanPlay
    /\ \E allowed \in BOOLEAN : SetAudio(playPreviousTrack(AudioRec, allowed))
    /\ lastOp' = "playPreviousTrack"
    /\ settingsSaved' = FALSE
    /\ UNCHANGED <<phase, settings, timerVars, timerUiVars, localFolderShown>>

\* Mutant of TogglePlayback: pausing the music pauses the countdown too.
TogglePlaybackPausesTimer ==
    /\ phase = "loaded"
    /\ CanPlay
    /\ \E allowed \in BOOLEAN : SetAudio(togglePlayback(AudioRec, settings, allowed))
    /\ lastOp' = "togglePlayback"
    /\ settingsSaved' = FALSE
    /\ timerState' = IF timerState \in Running /\ ~audioPaused THEN "paused" ELSE timerState
    /\ UNCHANGED <<phase, settings, remainingTime, timerIntervalId, currentSessionType,
                   activeIntervals, nextIntervalId, timerUiVars, localFolderShown>>

\* Command 'Toggle Lofi Playback' / ribbon icon / play-pause button.
TogglePlayback ==
    /\ phase = "loaded"
    /\ CanPlay
    /\ \E allowed \in BOOLEAN : SetAudio(togglePlayback(AudioRec, settings, allowed))
    /\ lastOp' = "togglePlayback"
    /\ settingsSaved' = FALSE
    /\ UNCHANGED <<phase, settings, timerVars, timerUiVars, localFolderShown>>

\* Mutant of Ended: the listener steps back instead of forward.
EndedPlaysPrevious ==
    /\ phase = "loaded"
    /\ audioPlayer /\ ~audioPaused
    /\ audioSrc # NoSrc /\ audioSrc # LocationHref
    /\ CanPlay
    /\ \E allowed \in BOOLEAN :
          SetAudio(playPreviousTrack(pause(AudioRec), allowed))
    /\ lastOp' = "ended"
    /\ settingsSaved' = FALSE
    /\ UNCHANGED <<phase, settings, timerVars, timerUiVars, localFolderShown>>

\* Playback ran to the end of the media: the element sets paused, fires
\* 'pause', rejects its pending play() promises and then fires 'ended', whose
\* listener calls playNextTrack().
Ended ==
    /\ phase = "loaded"
    /\ audioPlayer /\ ~audioPaused
    /\ audioSrc # NoSrc /\ audioSrc # LocationHref
    /\ CanPlay
    /\ \E allowed \in BOOLEAN :
          SetAudio(playNextTrack(pause(AudioRec), allowed))
    /\ lastOp' = "ended"
    /\ settingsSaved' = FALSE
    /\ UNCHANGED <<phase, settings, timerVars, timerUiVars, localFolderShown>>

\* A pending play() promise settles and its .then or .catch closure runs.
PlaySettled ==
    /\ \E promise \in BagToSet(pendingPlays), outcome \in {"resolve", "reject"} :
          LET rest == pendingPlays (-) SetToBag({promise})
              a == [AudioRec EXCEPT !.pendingPlays = rest]
          IN  /\ promise.fate = "reject" => outcome = "reject"
              /\ SetAudio(IF promise.origin = "activateStream"
                          THEN settleStreamPlay(a, promise, outcome)
                          ELSE settlePlay(a, promise, outcome))
              /\ lastOp' = IF outcome = "resolve" THEN "playResolved" ELSE "playRejected"
    /\ settingsSaved' = FALSE
    /\ UNCHANGED <<phase, settings, timerVars, timerUiVars, localFolderShown>>

\* Settings tab of the stream revision, 'Select this folder': the path is
\* saved and the track list rendered again; the folder is not scanned.
SelectCurrentFolderSaved ==
    /\ phase = "loaded"
    /\ \E currentBrowsePath \in FolderInputs :
          IF currentBrowsePath = <<>>
             \/ getAbstractFileByPath(currentBrowsePath).kind = "folder"
          THEN LET path == normalizePath(currentBrowsePath)
               IN  /\ settings' = [settings EXCEPT !.audioFolderPath = path]
                   /\ settingsSaved' = TRUE
                   /\ SetAudio(notice(AudioRec, <<"Audio folder set to", path>>))
          ELSE /\ SetAudio(notice(AudioRec,
                      <<"Cannot select current path: not a valid folder.">>))
               /\ settingsSaved' = FALSE
               /\ UNCHANGED settings
    /\ lastOp' = "selectCurrentFolder"
    /\ UNCHANGED <<phase, timerVars, timerUiVars, localFolderShown>>

\* Settings tab, volume slider onChange(value).
SetVolume ==
    /\ phase = "loaded"
    /\ \E value \in VolumeInputs :
          /\ settings' = [settings EXCEPT !.volume = value]
          /\ SetAudio(setVolume(AudioRec, value))
    /\ settingsSaved' = TRUE
    /\ lastOp' = "setVolume"
    /\ UNCHANGED <<phase, timerVars, timerUiVars, localFolderShown>>

\* Settings tab, the work-duration text field changes.
WorkDurationOnChange ==
    /\ phase = "loaded"
    /\ \E value \in DurationTexts :
          LET r == workDurationOnChange(settings, value)
          IN  /\ settings' = r.settings
              /\ settingsSaved' = r.saved
              /\ notices' = r.notices
    /\ lastOp' = "workDurationOnChange"
    /\ UNCHANGED <<phase, timerVars, timerUiVars, audioVars, localFolderShown>>

\* Settings tab, the rest-duration text field changes.
RestDurationOnChange ==
    /\ phase = "loaded"
    /\ \E value \in DurationTexts :
          LET r == restDurationOnChange(settings, value)
          IN  /\ settings' = r.settings
              /\ settingsSaved' = r.saved
              /\ notices' = r.notices
    /\ lastOp' = "restDurationOnChange"
    /\ UNCHANGED <<phase, timerVars, timerUiVars, audioVars, localFolderShown>>

\* Settings tab, audio-source dropdown onChange(value).
AudioSourceOnChange ==
    /\ phase = "loaded"
    /\ CanPlay
    /\ \E value \in StreamInputs, allowed \in BOOLEAN, throwAt \in ThrowPoints :
          LET s == [settings EXCEPT !.activeStreamId =
                        IF value = "local" THEN NullStreamId ELSE value]
          IN  /\ settings' = s
              /\ IF value = "local"
                 THEN /\ SetAudio(activateStream(AudioRec, s, NullStreamId, allowed, throwAt))
                      /\ localFolderShown' = TRUE
                 ELSE /\ SetAudio(activateStream(AudioRec, s, value, allowed, throwAt))
                      /\ localFolderShown' = FALSE
    /\ settingsSaved' = TRUE
    /\ lastOp' = "activateStream"
    /\ UNCHANGED <<phase, timerVars, timerUiVars>>

-----------------------------------------------------------------------------
(* Specifications                                                          *)

Init ==
    /\ phase = "constructed"
    /\ settings \in [workDuration : StoredWorkDurations,
                     restDuration : StoredRestDurations,
                     audioFolderPath : StoredFolders, activeStreamId : {NullStreamId},
                     volume : StoredVolumes]
    /\ timerState = "stopped"
    /\ remainingTime = 0
    /\ timerIntervalId = NullId
    /\ currentSessionType = "work"
    /\ activeIntervals = {}
    /\ nextIntervalId = 1
    /\ timerDisplayEl = FALSE
    /\ timerDisplayText = <<>>
    /\ timerPlayPauseButtonEl = FALSE
    /\ timerPlayPauseButtonText = ""
    /\ timerPlayPauseButtonLabel = ""
    /\ timerResetButtonEl = FALSE
    /\ timerResetButtonDisplay = ""
    /\ audioPlayer = FALSE
    /\ audioSrc = NoSrc
    /\ audioPaused = TRUE
    /\ audioVolume = FullVolume
    /\ pendingPlays = EmptyBag
    /\ playlist = <<>>
    /\ currentTrackIndex = NoTrack
    /\ statusBarItemEl = FALSE
    /\ statusBarText = <<>>
    /\ playPauseButtonEl = FALSE
    /\ playPauseButtonText = ""
    /\ playPauseButtonLabel = ""
    /\ playbackControlsDisplay = ""
    /\ localFolderShown = TRUE
    /\ notices = <<>>
    /\ settingsSaved = FALSE
    /\ lastOp = "constructor"

TimerNext == OnLoad \/ OnUnload \/ StartTimer \/ PauseTimer \/ ResetTimer \/ Tick

\* The playback controller driven by the settings tab that scans the folder
\* it selects.
AudioNext ==
    \/ OnLoad \/ OnUnload \/ SelectCurrentFolder \/ PlayTrackByPath
    \/ PlayNextTrack \/ PlayPreviousTrack \/ TogglePlayback \/ Ended
    \/ PlaySettled

\* The playback controller driven by the settings tab of the stream revision.
StreamNext ==
    \/ OnLoad \/ OnUnload \/ AudioSourceOnChange \/ SelectCurrentFolderSaved
    \/ PlayTrackByPath \/ TogglePlayback \/ Ended \/ PlaySettled

SessionNext == TimerNext \/ TogglePlayback \/ PlaySettled \/ SetVolume

\* The focus timer with its two duration fields of the settings tab.
SettingsNext == TimerNext \/ WorkDurationOnChange \/ RestDurationOnChange

\* The playback controller while the folder stays the one scanned by onload:
\* track selections, next/previous, the toggle and the element's events.
SelectionNext ==
    \/ OnLoad \/ OnUnload \/ PlayTrackByPath \/ PlayNextTrack
    \/ PlayPreviousTrack \/ TogglePlayback \/ Ended \/ PlaySettled

Next ==
    \/ TimerNext \/ AudioNext \/ StreamNext \/ SessionNext \/ SettingsNext
    \/ SelectionNext

\* The focus timer on its own: no audio folder configured.
TimerInit ==
    /\ Init
    /\ settings.volume = DefaultVolume
    /\ settings.audioFolderPath = <<>>
    /\ settings.workDuration \in ValidDurations
    /\ settings.restDuration \in ValidDurations
TimerSpec == TimerInit /\ [][TimerNext]_vars

\* The playback controller on its own: the timer is never started.
AudioInit ==
    /\ Init
    /\ settings.volume = DefaultVolume
    /\ settings.workDuration = Number(1)
    /\ settings.restDuration = Number(1)
AudioSpec == AudioInit /\ [][AudioNext]_vars

\* The focus timer with the documented defaults and with stored durations
\* that are not positive numbers.
DefaultsInit ==
    /\ Init
    /\ settings.volume = DefaultVolume
    /\ settings.audioFolderPath = <<>>
    /\ settings.workDuration \in {Number(1), Number(DefaultWorkDuration)} \cup InvalidDurations
    /\ settings.restDuration \in {Number(DefaultRestDuration)} \cup InvalidDurations
DefaultsSpec == DefaultsInit /\ [][TimerNext]_vars

\* The plugin with the settings tab of the stream revision.
StreamSpec == AudioInit /\ [][StreamNext]_vars

\* The timer and the player in use together: one-minute sessions, the
\* stored folder played by the toggle, the volume slider.
SessionInit ==
    /\ Init
    /\ settings.workDuration = Number(1)
    /\ settings.restDuration = Number(1)
    /\ settings.audioFolderPath = <<"music", "">>
SessionSpec == SessionInit /\ [][SessionNext]_vars

\* The focus timer while its durations are edited in the settings tab.
SettingsSpec == TimerInit /\ [][SettingsNext]_vars

\* Playback within the folder that was stored when the plugin loaded.
SelectionSpec == AudioInit /\ [][SelectionNext]_vars

\* The focus timer counting down a session of more than a hundred minutes.
LongInit ==
    /\ Init
    /\ settings.volume = DefaultVolume
    /\ settings.audioFolderPath = <<>>
    /\ settings.workDuration = Number(LongSession)
    /\ settings.restDuration = Number(1)
LongSpec == LongInit /\ [][TimerNext]_vars

Spec == Init /\ [][Next]_vars

-----------------------------------------------------------------------------
(* Properties of the focus timer (checked under TimerSpec)                 *)

PhaseOf(type) == IF type = "work" THEN "working" ELSE "resting"

\* The handler that ran last was a tick that ended a session of this type.
SessionJustEnded(type) ==
    /\ lastOp = "tick"
    /\ Len(notices) > 0
    /\ notices[1] = SessionEndedNotice(type)

\* C1. Auto-chain: when the tick that ends a Work session returns, the timer
\* is Resting with remainingTime = restDuration * 60; when the tick that ends
\* a Rest session returns, it is Working with workDuration * 60.
C1_AutoChain ==
    /\ SessionJustEnded("work") =>
          /\ timerState = "resting"
          /\ remainingTime = settings.restDuration.value * SecondsPerMinute
    /\ SessionJustEnded("rest") =>
          /\ timerState = "working"
          /\ remainingTime = settings.workDuration.value * SecondsPerMinute

\* C2. At most one interval is live, a live interval is the one stored in
\* timerIntervalId, and a step that creates an interval leaves the handle
\* that was stored before it cancelled.
C2_SingleInterval ==
    /\ [](/\ Cardinality(activeIntervals) <= 1
          /\ activeIntervals # {} => activeIntervals = {timerIntervalId})
    /\ [][(activeIntervals' \ activeIntervals # {} /\ timerIntervalId # NullId)
             => timerIntervalId \notin activeIntervals']_vars

\* C2 witness: a tick ended a session and the interval was created anew.
C2_Witness ==
    /\ lastOp = "tick"
    /\ Len(notices) = 2
    /\ timerIntervalId > 1
    /\ activeIntervals = {timerIntervalId}

\* C3. Pause/resume fidelity: a fresh start sets the full duration, every
\* tick short of the last takes exactly one second off, pauseTimer freezes
\* remainingTime and the session type, and the startTimer that resumes keeps
\* remainingTime and returns to the phase that was paused.
C3_PauseResume ==
    [][/\ (lastOp' = "startTimer" /\ timerState = "stopped") =>
             remainingTime' = settings.workDuration.value * SecondsPerMinute
       /\ (lastOp' = "tick" /\ timerState \in Running /\ remainingTime > 1) =>
             /\ remainingTime' = remainingTime - 1
             /\ timerState' = timerState
       /\ (lastOp' = "pauseTimer" /\ timerState \in Running) =>
             /\ timerState' = "paused"
             /\ timerState = PhaseOf(currentSessionType)
             /\ remainingTime' = remainingTime
             /\ currentSessionType' = currentSessionType
       /\ (lastOp' = "startTimer" /\ timerState = "paused") =>
             /\ timerState' = PhaseOf(currentSessionType)
             /\ remainingTime' = remainingTime
             /\ currentSessionType' = currentSessionType]_vars

\* C3 witness: a session resumed after some ticks had elapsed.
C3_Witness ==
    /\ lastOp = "startTimer"
    /\ Len(notices) = 1
    /\ notices[1][1] = "Resuming session"
    /\ timerState \in Running
    /\ 0 < remainingTime
    /\ remainingTime < settings.workDuration.value * SecondsPerMinute

\* C7. Perpetual cycle: a running timer stays running, with a positive
\* countdown and a live stored interval, across every step that is not
\* pauseTimer, resetTimer or onunload; in particular across the tick that
\* brings the countdown to zero.
C7_PerpetualCycle ==
    [][(timerState \in Running /\ lastOp' \notin {"pauseTimer", "resetTimer", "onunload"})
          => /\ timerState' \in Running
             /\ remainingTime' > 0
             /\ timerIntervalId' # NullId
             /\ timerIntervalId' \in activeIntervals']_vars

\* C7 witness: the tick that ended a session left the timer running.
C7_Witness ==
    /\ \E type \in {"work", "rest"} : SessionJustEnded(type)
    /\ timerState \in Running
    /\ remainingTime > 0

\* C8. remainingTime is a non-negative integer; Stopped implies it is 0;
\* Working, Resting and Paused imply it is positive.
C8_RemainingTime ==
    /\ remainingTime \in Nat
    /\ timerState = "stopped" => remainingTime = 0
    /\ timerState \in {"working", "resting", "paused"} => remainingTime > 0

\* C8 witness: paused on the last second of a session.
C8_Witness ==
    /\ timerState = "paused"
    /\ remainingTime = 1

\* MM:SS as the display is specified: two digits each, zero-padded.
Clock(sec) ==
    LET minutes == sec \div 60
        seconds == sec % 60
    IN  << DecimalDigit[(minutes \div 10) + 1], DecimalDigit[(minutes % 10) + 1], ":",
           DecimalDigit[(seconds \div 10) + 1], DecimalDigit[(seconds % 10) + 1] >>

\* C12. While the plugin is loaded the timer status text is the rendering of
\* the current phase and countdown: `Work: MM:SS` while Working, `Rest: MM:SS`
\* while Resting; with workDuration = 25 the start shows `Work: 25:00` and
\* the first tick `Work: 24:59`.
C12_TimerDisplay ==
    phase = "loaded" =>
        /\ timerState = "working" => timerDisplayText = <<"Work: ">> \o Clock(remainingTime)
        /\ timerState = "resting" => timerDisplayText = <<"Rest: ">> \o Clock(remainingTime)
        /\ (settings.workDuration = Number(25) /\ timerState = "working"
            /\ remainingTime = 1500)
              => timerDisplayText = <<"Work: ", "2", "5", ":", "0", "0">>
        /\ (settings.workDuration = Number(25) /\ timerState = "working"
            /\ remainingTime = 1499)
              => timerDisplayText = <<"Work: ", "2", "4", ":", "5", "9">>

\* C12 witness: with workDuration = 25, one tick after the start.
C12_Witness ==
    /\ lastOp = "tick"
    /\ settings.workDuration = Number(25)
    /\ timerState = "working"
    /\ remainingTime = 1499
    /\ timerDisplayText = <<"Work: ", "2", "4", ":", "5", "9">>

\* C13. resetTimer leaves the timer Stopped with remainingTime = 0, session
\* type work and no interval, whatever state it was called in; the startTimer
\* that follows a reset begins a Work session at the full work duration.
C13_ResetThenStart ==
    /\ [][lastOp' = "resetTimer"
            => /\ timerState' = "stopped"
               /\ remainingTime' = 0
               /\ currentSessionType' = "work"
               /\ timerIntervalId' = NullId
               /\ activeIntervals' = {}]_vars
    /\ [][(lastOp = "resetTimer" /\ lastOp' = "startTimer")
            => /\ timerState' = "working"
               /\ currentSessionType' = "work"
               /\ remainingTime' = settings.workDuration.value * SecondsPerMinute
               /\ notices'[1][1] = "Starting work session"]_vars

\* C13 witness: a fresh Work session was started after a paused session had
\* been reset (the interval in use is at least the second one created).
C13_Witness ==
    /\ lastOp = "startTimer"
    /\ Len(notices) = 1
    /\ notices[1][1] = "Starting work session"
    /\ timerIntervalId >= 2
    /\ remainingTime = settings.workDuration.value * SecondsPerMinute

\* A session was started by the handler that ran last: by startTimer from
\* Stopped, or by the tick that ended the session before it.
WorkSessionStartedByUser ==
    /\ lastOp = "startTimer"
    /\ Len(notices) = 1
    /\ notices[1][1] = "Starting work session"

\* C19. A session whose configured duration is not a positive number starts
\* from the default: 25 * 60 seconds for a Work session, 5 * 60 seconds for
\* the Rest session that follows a Work session; and a running session never
\* has a countdown that is not positive.
C19_DurationFallback ==
    /\ (WorkSessionStartedByUser /\ ~GreaterThan(settings.workDuration, 0))
          => remainingTime = DefaultWorkDuration * SecondsPerMinute
    /\ (SessionJustEnded("rest") /\ ~GreaterThan(settings.workDuration, 0))
          => remainingTime = DefaultWorkDuration * SecondsPerMinute
    /\ (SessionJustEnded("work") /\ ~GreaterThan(settings.restDuration, 0))
          => remainingTime = DefaultRestDuration * SecondsPerMinute
    /\ timerState \in Running => remainingTime > 0

\* C20. startTimer while Working or Resting changes nothing of the timer:
\* state, countdown, session type, stored handle and the interval table.
C20_StartWhileRunning ==
    [][(lastOp' = "startTimer" /\ timerState \in Running)
          => UNCHANGED <<timerState, remainingTime, currentSessionType,
                         timerIntervalId, activeIntervals, nextIntervalId>>]_vars

\* C20 witness: startTimer returned without a notice while the countdown of
\* a running session was under way.
C20_Witness ==
    /\ lastOp = "startTimer"
    /\ notices = <<>>
    /\ timerState \in Running
    /\ remainingTime < settings.workDuration.value * SecondsPerMinute
    /\ activeIntervals = {timerIntervalId}

\* C21. pauseTimer while Working or Resting moves the timer to Paused,
\* cancels the interval and stores null for it, and keeps remainingTime and
\* the session type; while the timer is Paused no interval is live, and no
\* tick changes remainingTime, the state or the session type.
C21_PauseFreezes ==
    /\ [][(lastOp' = "pauseTimer" /\ timerState \in Running)
             => /\ timerState' = "paused"
                /\ timerIntervalId' = NullId
                /\ timerIntervalId \notin activeIntervals'
                /\ remainingTime' = remainingTime
                /\ currentSessionType' = currentSessionType]_vars
    /\ [](timerState = "paused" => activeIntervals = {})
    /\ [][(timerState = "paused" /\ lastOp' = "tick")
             => UNCHANGED <<remainingTime, timerState, currentSessionType>>]_vars

\* C21 witness: a Work session was paused part-way through its countdown.
C21_Witness ==
    /\ lastOp = "pauseTimer"
    /\ notices = << <<"Timer paused.">> >>
    /\ timerState = "paused"
    /\ currentSessionType = "work"
    /\ remainingTime \in 1..(settings.workDuration.value * SecondsPerMinute - 1)
    /\ timerIntervalId = NullId
    /\ nextIntervalId > 1

\* C22. pauseTimer while the timer is Stopped or already Paused changes
\* nothing: state, countdown, session type, stored handle, interval table.
C22_PauseNoOp ==
    [][(lastOp' = "pauseTimer" /\ timerState \notin Running)
          => UNCHANGED <<timerState, remainingTime, currentSessionType,
                         timerIntervalId, activeIntervals, nextIntervalId>>]_vars

\* C22 witness: pauseTimer ran again on a session that was already paused
\* (it raised no notice this time).
C22_Witness ==
    /\ lastOp = "pauseTimer"
    /\ notices = <<>>
    /\ timerState = "paused"
    /\ remainingTime > 0

-----------------------------------------------------------------------------
(* Properties of the timer and the player together (checked under          *)
(* SessionSpec)                                                            *)

C18_Teardown ==
    /\ [](phase = "unloaded"
            => /\ activeIntervals = {}
               /\ timerIntervalId = NullId
               /\ timerState = "stopped"
               /\ remainingTime = 0
               /\ currentSessionType = "work"
               /\ ~audioPlayer
               /\ audioPaused
               /\ audioSrc = LocationHref
               /\ playlist = <<>>
               /\ currentTrackIndex = -1)
    /\ [][phase = "unloaded" => UNCHANGED timerVars]_vars

\* C18 witness: the plugin was unloaded while a Work session was counting
\* down (the display still shows its last second) and the music was playing
\* (the button still shows the pause icon, the play attempt was aborted).
C18_Witness ==
    /\ phase = "unloaded"
    /\ lastOp = "onunload"
    /\ timerDisplayText = <<"Work: ", "0", "0", ":", "5", "9">>
    /\ playPauseButtonText = PauseIcon
    /\ playPauseButtonLabel = "Pause"
    /\ \E p \in BagToSet(pendingPlays) : p.fate = "reject"

-----------------------------------------------------------------------------
(* Properties of the playback controller (checked under AudioSpec)         *)

PlayingPresentation == playPauseButtonText = PauseIcon /\ playPauseButtonLabel = "Pause"
PausedPresentation == playPauseButtonText = PlayIcon /\ playPauseButtonLabel = "Play"

\* C15. From plugin load onward the play/pause control shows the playing
\* presentation (pause icon, label 'Pause') exactly when the player is
\* playing and the paused presentation (play icon, label 'Play') exactly when
\* it is paused.
C15_ButtonMirrorsPlayer ==
    phase = "loaded"
        => /\ PlayingPresentation <=> ~audioPaused
           /\ PausedPresentation <=> audioPaused

Distinct(list) == \A i, j \in DOMAIN list : list[i] = list[j] => i = j

\* C4. currentTrackIndex is -1 or a valid index of the playlist.
C4_IndexInRange ==
    \/ currentTrackIndex = -1
    \/ (0 <= currentTrackIndex /\ currentTrackIndex < Len(playlist))

\* C4 witness: previous was used and the index is the last of three tracks.
C4_Witness ==
    /\ lastOp = "playPreviousTrack"
    /\ Len(playlist) = 3
    /\ currentTrackIndex = 2

\* C5. Wraparound: with n >= 2 distinct tracks and a valid index i,
\* playNextTrack leaves the index at (i + 1) mod n and playPreviousTrack at
\* (i - 1 + n) mod n, and the track at that index is the one loaded.
C5_Wraparound ==
    [][(/\ Len(playlist) >= 2
        /\ Distinct(playlist)
        /\ currentTrackIndex \in 0..(Len(playlist) - 1)
        /\ lastOp' \in {"playNextTrack", "playPreviousTrack"})
          => /\ playlist' = playlist
             /\ currentTrackIndex' =
                   IF lastOp' = "playNextTrack"
                   THEN (currentTrackIndex + 1) % Len(playlist)
                   ELSE (currentTrackIndex - 1 + Len(playlist)) % Len(playlist)
             /\ audioSrc' = getResourcePath(At(playlist, currentTrackIndex'))]_vars

\* C5 witness: next at the last of three tracks went to the first: the play
\* attempt it superseded was for the last track.
C5_Witness ==
    /\ lastOp = "playNextTrack"
    /\ Len(playlist) = 3
    /\ currentTrackIndex = 0
    /\ BagCardinality(pendingPlays) = 2
    /\ \E p \in BagToSet(pendingPlays) :
          p.track = playlist[3] /\ p.fate = "reject"
    /\ \E p \in BagToSet(pendingPlays) : p.track = playlist[1]
    /\ audioSrc = getResourcePath(playlist[1])

\* C6. With 0 or 1 track, playNextTrack and playPreviousTrack change neither
\* the index, the playlist, the loaded source nor the paused flag, issue no
\* play(), and raise the one notice that names the condition.
C6_SingleOrEmptyGuard ==
    [][(lastOp' \in {"playNextTrack", "playPreviousTrack"} /\ Len(playlist) <= 1)
          => /\ UNCHANGED <<currentTrackIndex, playlist, audioSrc, audioPaused,
                            pendingPlays>>
             /\ notices' =
                   << IF lastOp' = "playNextTrack"
                      THEN IF Len(playlist) = 0
                           THEN <<"Cannot play next track: Playlist is empty.">>
                           ELSE <<"Cannot play next track: Only one track in playlist.">>
                      ELSE IF Len(playlist) = 0
                           THEN <<"Cannot play previous track: Playlist is empty.">>
                           ELSE <<"Cannot play previous track: Only one track in playlist.">> >>]_vars

\* C6 witness: next was refused on a one-track playlist that is playing.
C6_Witness ==
    /\ lastOp = "playNextTrack"
    /\ Len(playlist) = 1
    /\ currentTrackIndex = 0
    /\ ~audioPaused
    /\ statusBarText = <<"Lofi: Single Track">>

\* C9. Stale-callback safety: the settlement of a play() promise changes
\* neither the stored source id, the playlist, currentTrackIndex, nor the
\* player's loaded source and paused flag.
C9_StaleSettlement ==
    [][lastOp' \in {"playResolved", "playRejected"}
          => UNCHANGED <<settings, playlist, currentTrackIndex, audioSrc,
                         audioPaused>>]_vars

\* C9 witness: the promise of a superseded track selection was rejected
\* while a later selection is the current, loaded track.
C9_Witness ==
    /\ lastOp = "playRejected"
    /\ Len(notices) = 1
    /\ notices[1][1] = "Failed to play"
    /\ currentTrackIndex \in 0..(Len(playlist) - 1)
    /\ notices[1][2] # TrackName(At(playlist, currentTrackIndex))
    /\ audioSrc = getResourcePath(At(playlist, currentTrackIndex))
    /\ ~audioPaused

SourceIsRemote == settings.activeStreamId \in (RegistryIds \ {"local"})

IndexIsValid == currentTrackIndex \in 0..(Len(playlist) - 1)

FolderAt(path) == IF path = <<>> THEN getRoot ELSE getAbstractFileByPath(path)

\* The handler that ran last accepted the folder it was given and no host
\* call made by a scan threw.
FolderAccepted ==
    /\ Len(notices) > 0
    /\ notices[Len(notices)][1] = "Audio folder set to"
    /\ \A i \in DOMAIN notices : notices[i] # <<"Error scanning folder">>

\* C17. When 'Select This Folder' has completed on a valid folder, the
\* playlist consists of the MP3 files of the folder now selected.
C17_SelectRescans ==
    (lastOp = "selectCurrentFolder" /\ FolderAccepted /\ settings.audioFolderPath # <<>>)
        => playlist = Mp3Children(FolderAt(settings.audioFolderPath).children)

\* C16. When the folder browser has selected a valid folder, the vault root
\* included, that directly contains at least one MP3 file, and the folder
\* has been scanned, the playlist is non-empty and currentTrackIndex is 0.
C16_AnyFolderPlays ==
    (/\ lastOp = "scanAudioFolder"
     /\ FolderAccepted
     /\ Len(Mp3Children(FolderAt(settings.audioFolderPath).children)) > 0)
        => /\ Len(playlist) > 0
           /\ currentTrackIndex = 0

\* The reports of playTrackByPath when it cannot select the track.
TrackNotPlayable ==
    { << <<"Error: Selected track not found in playlist.">> >>,
      << <<"Cannot play track: Audio player not ready or playlist is empty.">> >> }

\* C23. playTrackByPath with a track path that is not in the playlist is
\* reported and changes nothing: currentTrackIndex, playlist, the loaded
\* source, the paused flag and the pending play() attempts stay as they are.
C23_StaleTrackRejected ==
    /\ [](phase = "loaded"
            => \A trackVaultPath \in TrackInputs, allowed \in BOOLEAN :
                  (\A i \in DOMAIN playlist : playlist[i] # trackVaultPath)
                     => LET a == playTrackByPath(AudioRec, trackVaultPath, allowed)
                        IN  /\ a.notices \in TrackNotPlayable
                            /\ a.currentTrackIndex = currentTrackIndex
                            /\ a.playlist = playlist
                            /\ a.audioSrc = audioSrc
                            /\ a.audioPaused = audioPaused
                            /\ a.pendingPlays = pendingPlays)
    /\ [][(lastOp' = "playTrackByPath" /\ notices' \in TrackNotPlayable)
             => UNCHANGED <<currentTrackIndex, playlist, audioSrc, audioPaused,
                            pendingPlays>>]_vars

\* C23 witness: while a track of the folder scanned last was playing, a
\* track-list item that is not in the playlist was clicked.
C23_Witness ==
    /\ lastOp = "playTrackByPath"
    /\ notices = << <<"Error: Selected track not found in playlist.">> >>
    /\ statusBarText = <<"Lofi: Track Error">>
    /\ Len(playlist) > 0
    /\ ~audioPaused
    /\ audioSrc = getResourcePath(playlist[currentTrackIndex + 1])

\* C24. playTrackByPath with a track of the playlist sets currentTrackIndex
\* to the track's position, loads the track and issues one play(); when a
\* play() attempt fails the failure is reported, currentTrackIndex, the
\* loaded source and the playlist are left as they are, and no new attempt
\* is issued.
C24_IndexChangeStands ==
    /\ [](phase = "loaded"
            => \A trackVaultPath \in TrackInputs, allowed \in BOOLEAN :
                  \A i \in DOMAIN playlist :
                     (/\ playlist[i] = trackVaultPath
                      /\ \A j \in 1..(i - 1) : playlist[j] # trackVaultPath)
                     => LET a == playTrackByPath(AudioRec, trackVaultPath, allowed)
                        IN  /\ a.currentTrackIndex = i - 1
                            /\ a.audioSrc = <<"app://local">> \o trackVaultPath
                            /\ a.playlist = playlist
                            /\ BagCardinality(a.pendingPlays)
                                  = BagCardinality(pendingPlays) + 1
                            /\ \E p \in BagToSet(a.pendingPlays) :
                                  /\ p.origin = "playTrackByPath"
                                  /\ p.track = trackVaultPath)
    /\ [][lastOp' = "playRejected"
             => /\ UNCHANGED <<currentTrackIndex, audioSrc, playlist, audioPaused>>
                /\ BagCardinality(pendingPlays') = BagCardinality(pendingPlays) - 1
                /\ Len(notices') = 1]_vars

\* C24 witness: the play() attempt of the selected second track failed; the
\* track is still the selected and loaded one.
C24_Witness ==
    /\ lastOp = "playRejected"
    /\ notices = << <<"Failed to play", "B.MP3">> >>
    /\ statusBarText = <<"Lofi: Playback Error">>
    /\ currentTrackIndex = 1
    /\ playlist[2] = <<"music", "B.MP3">>
    /\ audioSrc = <<"app://local", "music", "B.MP3">>
    /\ pendingPlays = EmptyBag

\* C25. When playback reaches the end of the media the 'ended' listener has
\* the effect of playNextTrack: with two or more tracks the index advances by
\* one, wrapping to 0 after the last, and that track is loaded and one play()
\* issued; with one track or none the index, the playlist and the source are
\* left as they are and no play() is issued.
C25_EndedAdvances ==
    [][lastOp' = "ended"
          => IF Len(playlist) >= 2
             THEN /\ currentTrackIndex' =
                        IF currentTrackIndex + 1 >= Len(playlist) THEN 0
                        ELSE currentTrackIndex + 1
                  /\ playlist' = playlist
                  /\ audioSrc' = <<"app://local">> \o playlist[currentTrackIndex' + 1]
                  /\ BagCardinality(pendingPlays') = BagCardinality(pendingPlays) + 1
                  /\ \E p \in BagToSet(pendingPlays') :
                        /\ p.origin = "playTrackByPath"
                        /\ p.track = playlist[currentTrackIndex' + 1]
             ELSE /\ UNCHANGED <<currentTrackIndex, playlist, audioSrc>>
                  /\ audioPaused'
                  /\ BagCardinality(pendingPlays') = BagCardinality(pendingPlays)
                  /\ \A p \in BagToSet(pendingPlays') : p.fate = "reject"
                  /\ Len(notices') = 1]_vars

\* C25 witness: the last of three tracks ran to its end and the first one
\* was started.
C25_Witness ==
    /\ lastOp = "ended"
    /\ Len(playlist) = 3
    /\ currentTrackIndex = 0
    /\ audioSrc = <<"app://local", "music", "a.mp3">>
    /\ ~audioPaused
    /\ statusBarText = <<"Playing: ", "c.mp3">>

\* The conditions under which togglePlayback acts on the player.
ToggleReady ==
    /\ audioPlayer
    /\ audioSrc # <<>>
    /\ audioSrc # <<"location.href">>
    /\ Len(playlist) > 0
    /\ currentTrackIndex \in 0..(Len(playlist) - 1)

\* C26. togglePlayback without a player, without a loaded source, or with an
\* empty playlist or an invalid index is reported and leaves the player, the
\* index and the playlist as they are; otherwise it issues play() and no
\* pause() when the player is paused, and pause() and no play() when the
\* player is playing.
C26_ToggleOpposite ==
    /\ [](~audioPlayer
            => \A allowed \in BOOLEAN :
                  togglePlayback(AudioRec, settings, allowed)
                     = [AudioRec EXCEPT !.notices = << <<"Audio player not initialized.">> >>])
    /\ [][lastOp' = "togglePlayback"
             => IF ~ToggleReady
                THEN /\ UNCHANGED <<audioPlayer, audioSrc, audioPaused, audioVolume,
                                    pendingPlays, currentTrackIndex, playlist>>
                     /\ Len(notices') = 1
                ELSE IF audioPaused
                THEN /\ BagCardinality(pendingPlays') = BagCardinality(pendingPlays) + 1
                     /\ \A p \in BagToSet(pendingPlays) :
                           CopiesIn(p, pendingPlays') >= CopiesIn(p, pendingPlays)
                     /\ UNCHANGED <<audioSrc, currentTrackIndex, playlist>>
                ELSE /\ audioPaused'
                     /\ BagCardinality(pendingPlays') = BagCardinality(pendingPlays)
                     /\ \A p \in BagToSet(pendingPlays') : p.fate = "reject"
                     /\ UNCHANGED <<audioSrc, currentTrackIndex, playlist>>]_vars

\* C26 witness: the toggle resumed a track it had paused before; the status
\* bar still shows the paused text while the play() attempt is pending.
C26_Witness ==
    /\ lastOp = "togglePlayback"
    /\ ~audioPaused
    /\ statusBarText[1] = "Lofi Paused || "
    /\ \E p \in BagToSet(pendingPlays) : p.origin = "togglePlayback" /\ p.fate = "any"

\* A child of a folder that is a file whose extension spells mp3 in any case.
IsMp3File(f) ==
    /\ f.kind = "file"
    /\ f.extension \in {"mp3", "MP3", "Mp3", "mP3"}

\* The handler that ran last scanned an existing folder other than the
\* vault root and no host call threw.
ScannedFolder ==
    /\ lastOp = "scanAudioFolder"
    /\ FolderAccepted
    /\ settings.audioFolderPath # <<>>

\* C27. A successful scan of a folder with at least one MP3 file sets
\* currentTrackIndex = 0, issues no play() and, when the player was paused,
\* loads the first track and leaves the player paused; a successful scan of
\* a folder without MP3 files leaves the playlist empty, currentTrackIndex =
\* -1 and the source cleared.
C27_ScanLoadsFirst ==
    [][ScannedFolder'
          => LET children == FolderAt(settings'.audioFolderPath).children
             IN  IF \E j \in DOMAIN children : IsMp3File(children[j])
                 THEN /\ Len(playlist') > 0
                      /\ currentTrackIndex' = 0
                      /\ BagCardinality(pendingPlays') = BagCardinality(pendingPlays)
                      /\ audioPaused
                            => /\ audioSrc' = <<"app://local">> \o playlist'[1]
                               /\ audioPaused'
                               /\ \A p \in BagToSet(pendingPlays') : p.fate = "reject"
                 ELSE /\ playlist' = <<>>
                      /\ currentTrackIndex' = -1
                      /\ audioSrc' = <<"location.href">>]_vars

\* C27 witness: with the one-track folder loaded and idle, the three-track
\* folder was selected; its first track is loaded and nothing plays.
C27_Witness ==
    /\ ScannedFolder
    /\ settings.audioFolderPath = <<"music">>
    /\ Len(playlist) = 3
    /\ currentTrackIndex = 0
    /\ audioSrc = <<"app://local", "music", "a.mp3">>
    /\ audioPaused
    /\ statusBarText = <<"Lofi Ready || ", "a.mp3">>
    /\ pendingPlays = EmptyBag

\* The position of a path among the children of a folder.
ChildPosition(children, path) ==
    CHOOSE j \in DOMAIN children : children[j].path = path

\* C28. After a scan of a valid folder the playlist holds exactly the paths
\* of the folder's direct children that are files with extension mp3 in any
\* case, each once and in the folder's order.
C28_PlaylistIsFolderListing ==
    ScannedFolder
        => LET children == FolderAt(settings.audioFolderPath).children
           IN  /\ \A i \in DOMAIN playlist :
                     \E j \in DOMAIN children :
                        IsMp3File(children[j]) /\ children[j].path = playlist[i]
               /\ \A j \in DOMAIN children :
                     IsMp3File(children[j])
                        => \E i \in DOMAIN playlist : playlist[i] = children[j].path
               /\ \A i, k \in DOMAIN playlist :
                     i < k => ChildPosition(children, playlist[i])
                                 < ChildPosition(children, playlist[k])

\* C28 witness: the three-track folder, which also holds a subfolder, a
\* picture and a track with an upper-case extension, was scanned after
\* another folder had been.
C28_Witness ==
    /\ ScannedFolder
    /\ settings.audioFolderPath = <<"music">>
    /\ playlist = << <<"music", "a.mp3">>, <<"music", "B.MP3">>, <<"music", "c.mp3">> >>
    /\ ~audioPaused
    /\ audioSrc = <<"app://local", "solo", "only.mp3">>

\* C29. A scan of an empty path, of a path that is not an existing folder,
\* or one during which a host call throws ends with the playlist empty,
\* currentTrackIndex = -1 and the source cleared, and with a notice or a
\* status text reporting the condition.
C29_ScanFailsSafe ==
    LET failed ==
            \/ /\ lastOp = "scanAudioFolder"
               /\ Len(notices) > 0
               /\ notices[Len(notices)][1] = "Audio folder set to"
               /\ \/ settings.audioFolderPath = <<>>
                  \/ \E i \in DOMAIN notices : notices[i] = <<"Error scanning folder">>
            \/ /\ lastOp = "onload"
               /\ settings.audioFolderPath = <<"missing">>
    IN  failed
           => /\ playlist = <<>>
              /\ currentTrackIndex = -1
              /\ audioSrc = <<"location.href">>
              /\ \/ \E i \in DOMAIN notices :
                       notices[i][1] \in {"Error scanning folder", "Error: not a valid folder"}
                 \/ statusBarText \in { <<"Lofi: No folder set">>, <<"Lofi: Scan Error">>,
                                        <<"Lofi: Invalid folder">> }

-----------------------------------------------------------------------------
(* Properties of the duration fields (checked under SettingsSpec)          *)

PositiveInteger(x) == ~x.isNaN /\ x.value \in Nat /\ x.value > 0

\* The texts that do not start, after white space, with a positive integer.
RejectedTexts == { <<>>, <<"0">>, <<"-", "1">>, <<"a">> }

\* The integer the other texts start with.
ExpectedDuration(value) ==
    CASE value = <<"2", ".", "5">> -> 2
      [] value = <<" ", "1">> -> 1
      [] value = <<"1", "x">> -> 1
      [] OTHER -> CHOOSE n \in 1..MaxMinutes : String(n) = value

\* C30. The stored workDuration and restDuration stay positive integers
\* whatever is typed into the two fields: a text that does not parse to a
\* positive integer raises a notice, leaves the settings as they are and
\* saves nothing; any other text stores the integer it parses to and saves.
C30_DurationsStayValid ==
    /\ [](PositiveInteger(settings.workDuration)
             /\ PositiveInteger(settings.restDuration))
    /\ [](\A value \in DurationTexts :
             LET w == workDurationOnChange(settings, value)
                 r == restDurationOnChange(settings, value)
             IN  IF value \in RejectedTexts
                 THEN /\ w.settings = settings /\ ~w.saved /\ Len(w.notices) = 1
                      /\ r.settings = settings /\ ~r.saved /\ Len(r.notices) = 1
                 ELSE /\ w.settings = [settings EXCEPT !.workDuration =
                                          [isNaN |-> FALSE, value |-> ExpectedDuration(value)]]
                      /\ w.saved /\ w.notices = <<>>
                      /\ r.settings = [settings EXCEPT !.restDuration =
                                          [isNaN |-> FALSE, value |-> ExpectedDuration(value)]]
                      /\ r.saved /\ r.notices = <<>>)
    /\ [][lastOp' \in {"workDurationOnChange", "restDurationOnChange"}
             => IF notices' # <<>>
                THEN UNCHANGED settings /\ ~settingsSaved'
                ELSE settingsSaved']_vars

\* C30 witness: a text was rejected by the work-duration field after an
\* earlier edit had shortened the duration of the session that is running.
C30_Witness ==
    /\ lastOp = "workDurationOnChange"
    /\ Len(notices) = 1
    /\ ~settingsSaved
    /\ settings.workDuration = [isNaN |-> FALSE, value |-> 1]
    /\ timerState = "working"
    /\ remainingTime > SecondsPerMinute

-----------------------------------------------------------------------------
(* Session-ended notices                                                   *)

SessionEndedNotices == {SessionEndedNotice("work"), SessionEndedNotice("rest")}

\* C31. A tick that brings the countdown to zero raises exactly one
\* session-ended notice, the notice names the type of the session that was
\* counting down, and the session that follows is of the other type, so that
\* over an uninterrupted run the notices alternate Work, Rest, Work, ...
\* A tick that does not end the session leaves the session type alone.
C31_EndedNoticesAlternate ==
    [][lastOp' = "tick" =>
          IF remainingTime <= 1
          THEN /\ Cardinality({i \in DOMAIN notices' :
                                  notices'[i] \in SessionEndedNotices}) = 1
               /\ notices'[1] = SessionEndedNotice(currentSessionType)
               /\ currentSessionType' # currentSessionType
          ELSE /\ notices' = <<>>
               /\ UNCHANGED currentSessionType]_vars

\* C34. Between timer operations a countdown interval is live exactly when
\* the timer is working or resting: then it is the one interval stored in
\* timerIntervalId; when the timer is stopped or paused no interval is live
\* and timerIntervalId is null.
C34_IntervalIffRunning ==
    IF timerState \in Running
    THEN timerIntervalId # NullId /\ activeIntervals = {timerIntervalId}
    ELSE timerIntervalId = NullId /\ activeIntervals = {}

\* C34 witness: a session that was paused and resumed has been reset, and
\* neither of the two intervals it used is left.
C34_Witness ==
    /\ lastOp = "resetTimer"
    /\ notices = << <<"Timer reset.">> >>
    /\ timerState = "stopped"
    /\ nextIntervalId = 3
    /\ timerIntervalId = NullId
    /\ activeIntervals = {}

-----------------------------------------------------------------------------
(* Properties of the playback controller, continued (AudioSpec)            *)

\* The status text the initial scan of onload asks for.
InitialScanStatus ==
    IF settings.audioFolderPath = <<>>
    THEN <<"Lofi: No folder set">>
    ELSE IF playlist = <<>>
    THEN <<"Lofi: No files found">>
    ELSE <<"Lofi Ready || ", TrackName(playlist[1])>>

\* C33. When onload completes, the audio status text tells the outcome of
\* the initial folder scan: 'Lofi: No folder set' with no folder configured,
\* 'Lofi: No files found' when the folder gave no track, and
\* 'Lofi Ready || <first track>' when tracks were found.
C33_StatusAfterLoad ==
    lastOp = "onload" => statusBarText = InitialScanStatus

\* The handler that ran last was the folder selection of the settings tab and
\* it went through scanAudioFolder.
ScanReturned ==
    /\ lastOp = "scanAudioFolder"
    /\ Len(notices) > 0
    /\ notices[Len(notices)][1] = "Audio folder set to"

\* C36. After scanAudioFolder has returned, by whichever path (tracks found,
\* none found, not a folder, or an exception part-way through the scan),
\* currentTrackIndex is -1 exactly when the playlist is empty.
C36_IndexMatchesPlaylist ==
    ScanReturned => (currentTrackIndex = NoTrack <=> playlist = <<>>)

\* The player has a media source loaded (src is neither unset nor cleared).
SourceLoaded == audioPlayer /\ audioSrc \notin {NoSrc, LocationHref}

\* C35. Whenever the playlist is non-empty and the player has a source
\* loaded, the index is in range and the source is the resource of
\* playlist[currentTrackIndex], whatever scans, selections and next/previous
\* came before, a rescan during playback included.
C35_SourceIsCurrentTrack ==
    (Len(playlist) > 0 /\ SourceLoaded)
        => /\ IndexIsValid
           /\ audioSrc = getResourcePath(At(playlist, currentTrackIndex))

-----------------------------------------------------------------------------
(* The clock of the timer display (checked under LongSpec)                 *)

\* The time part of the timer display of a session that is not stopped.
ShownTime ==
    IF timerState = "paused"
    THEN SubSeq(timerDisplayText, 3, Len(timerDisplayText) - 1)
    ELSE Tail(timerDisplayText)

\* The largest remaining time whose minutes fit two digits: 99:59.
LastTwoDigitSecond == 99 * SecondsPerMinute + 59

\* C32. For every remaining time r in 0..5999 the time is rendered as the
\* five characters MM:SS, two decimal digits each, with MM = r div 60 and
\* SS = r mod 60 (so SS <= 59 and MM * 60 + SS = r); from r = 6000 on the
\* minutes field has more than two digits.
C32_ClockFormat ==
    (timerDisplayEl /\ timerState # "stopped")
        => LET colon == CHOOSE i \in DOMAIN ShownTime : ShownTime[i] = ":"
               mm == SubSeq(ShownTime, 1, colon - 1)
               ss == SubSeq(ShownTime, colon + 1, Len(ShownTime))
           IN  /\ \E i \in DOMAIN ShownTime : ShownTime[i] = ":"
               /\ \A i \in DOMAIN mm : IsDigit(mm[i])
               /\ \A i \in DOMAIN ss : IsDigit(ss[i])
               /\ Len(ss) = 2
               /\ ParseDigits(ss, 0) = remainingTime % SecondsPerMinute
               /\ ParseDigits(mm, 0) = remainingTime \div SecondsPerMinute
               /\ ParseDigits(ss, 0) <= 59
               /\ ParseDigits(mm, 0) * SecondsPerMinute + ParseDigits(ss, 0)
                     = remainingTime
               /\ IF remainingTime <= LastTwoDigitSecond
                  THEN Len(mm) = 2 /\ Len(ShownTime) = 5
                  ELSE Len(mm) > 2

\* C32 witness: the countdown of a long session shows its last two-digit
\* minute, 99:59, one tick after it showed 100:00.
C32_Witness ==
    /\ lastOp = "tick"
    /\ timerState = "working"
    /\ remainingTime = LastTwoDigitSecond
    /\ timerDisplayText = <<"Work: ", "9", "9", ":", "5", "9">>

-----------------------------------------------------------------------------
(* The timer controls of the status bar (checked under TimerSpec)          *)

\* The timer is fully reset.
FullyReset == timerState = "stopped" /\ remainingTime = 0

\* The timer play/pause button shows its start presentation.
StartPresentation ==
    /\ timerPlayPauseButtonText = TimerStartIcon
    /\ timerPlayPauseButtonLabel = "Start Timer"

\* C38. From the end of onload onward the timer reset button is hidden
\* exactly when the timer is fully reset (stopped with no remaining time),
\* and the timer play/pause button shows the start presentation exactly
\* when the timer is stopped or paused.
C38_TimerControls ==
    phase = "loaded"
        => /\ timerResetButtonDisplay = "none" <=> FullyReset
           /\ StartPresentation <=> timerState \in {"stopped", "paused"}

-----------------------------------------------------------------------------
(* The playback controls of the status bar (checked under AudioSpec)       *)

\* C39. From the end of onload onward the previous, play/pause and next
\* buttons are visible exactly when the playlist is non-empty; they are
\* hidden after loading with no folder configured or with a folder that
\* gave no track.
C39_PlaybackControls ==
    phase = "loaded" => (playbackControlsDisplay = "" <=> Len(playlist) > 0)

====
